---- MODULE Spec2Model ----
(***************************************************************************)
(* streamutil: buffered read / write engines that dispatch every           *)
(* transferred chunk to an ordered list of callbacks.                      *)
(*                                                                         *)
(* One behaviour of the model follows ONE handle: either a reader built by *)
(* Reader / NewReader over a source, or a writer built by Writer /         *)
(* NewWriter over a sink.  Every action is one complete call of a public    *)
(* method by a single caller (sequential use).                             *)
(*                                                                         *)
(* Spec        sequential use of one reader or one writer                  *)
(* SpecClose   several goroutines calling Close on one writer at once      *)
(* SpecTee     the reader built by TeeReader, and its teeWriterCallback    *)
(* SpecResults Results of an engine whose observers' names may coincide    *)
(* SpecPanic   formatPanic applied to panic payloads                       *)
(* SpecSize    several goroutines calling OnData of one SizeCallback       *)
(* SpecRace    two goroutines calling Read / Write on one engine at once   *)
(* SpecTeeRace several goroutines calling OnData of one teeWriterCallback  *)
(*                                                                         *)
(* Bytes are data-independent in the code (never inspected), so each byte  *)
(* carries a unique number: loss, duplication and reordering are visible.  *)
(***************************************************************************)
EXTENDS Integers, Sequences, FiniteSets, TLC

\* ---------------------------------------------------------------- bounds
MaxObs  == 2    \* observers that can be registered on one engine
MaxSrc  == 3    \* length of the source content
MaxP    == 2    \* length of the caller's buffer p
MaxOps  == 3    \* method calls in one behaviour
BufSize == 2    \* capacity of the bufio buffer (32 KiB in the code, scaled)
MaxOff  == 1    \* largest offset of a positional call
MaxProcs == 2   \* goroutines that run at the same time
MaxPay  == 2    \* panic payloads formatted in one behaviour

\* the sizes of p the caller uses: empty, one byte, and the largest
Lens == {0, 1, MaxP}
\* the offsets of the positional calls: the start and the furthest
Offsets == {0, MaxOff}

VARIABLES
    mode,        \* "read": the behaviour follows a reader; "write": a writer
    source,      \* the underlying source: content, cursor, io.ReaderAt or not
    sink,        \* the underlying sink: bytes received, io.WriterAt / io.Closer
    br,          \* what Reader / NewReader returned (Nil before)
    bw,          \* what Writer / NewWriter returned (Nil before)
    seen,        \* per observer, the chunks its OnData was called with
    delivered,   \* history: bytes returned by the sequential Reads so far
    accepted,    \* history: bytes p[:n] taken by the sequential Writes so far
    last,        \* the last call: what it returned and what it did
    firstErr,    \* history: first non-EOF error a Read/ReadAt/Write/WriteAt/Flush returned
    firstCbErr,  \* history: first observer failure / Flush failure returned
    nOps,        \* number of method calls made
    procs,       \* the goroutines that call Close concurrently: where each is
    tee,         \* the teeWriterCallback built by TeeReader: its cached error
    mirror,      \* the sink the teeWriterCallback writes to
    names,       \* per observer, the string its Name() returns
    snaps,       \* history: the maps the Results calls returned, in order
    size,        \* the size field of the shared SizeCallback
    payload      \* the panic payloads handed to formatPanic, in order

vars == <<mode, source, sink, br, bw, seen, delivered, accepted, last,
          firstErr, firstCbErr, nOps, procs, tee, mirror, names, snaps, size,
          payload>>

Min(a, b) == IF a < b THEN a ELSE b
Max(a, b) == IF a < b THEN b ELSE a
Take(s, n) == SubSeq(s, 1, Min(n, Len(s)))
Drop(s, n) == SubSeq(s, Min(n, Len(s)) + 1, Len(s))

\* ---------------------------------------------------------------- errors
\* An error value is (kind, msg, id); id tells apart two values made by
\* two errors.New calls with the same text (pointer identity in Go).
NoErr == [kind |-> "nil", msg |-> "", id |-> 0]
EOF == [kind |-> "EOF", msg |-> "EOF", id |-> 0]
ErrShortWrite == [kind |-> "ErrShortWrite", msg |-> "short write", id |-> 0]
\* mutant: one shared error value per text
errorsNew_Sentinel(msg, id) == [kind |-> "errorString", msg |-> msg, id |-> 0]

errorsNew(msg, id) == [kind |-> "errorString", msg |-> msg, id |-> id]

\* errors owned by the collaborators (transport, observers)
SrcErr == [kind |-> "transport", msg |-> "read error", id |-> 0]
SinkErr == [kind |-> "transport", msg |-> "write error", id |-> 0]
CloseErr == [kind |-> "transport", msg |-> "close error", id |-> 0]
ObsErr(i) == [kind |-> "observer", msg |-> "oops", id |-> i]

Nil == [type |-> "nil"]

\* ------------------------------------------------------------- observers
ObsIds == 1..MaxObs

\* What one OnData invocation does: return nil, return an error, or panic
\* with a payload that is an error value, a string, or something else.
\* The texts name the observer, so that an error tells whose it is.
OkOut == [t |-> "ok", ptype |-> "", msg |-> ""]
ErrOut == [t |-> "err", ptype |-> "", msg |-> "oops"]
PanicOuts(i) == {[t |-> "panic", ptype |-> "error", msg |-> "boom" \o ToString(i)],
                 [t |-> "panic", ptype |-> "string", msg |-> "bad" \o ToString(i)],
                 [t |-> "panic", ptype |-> "int", msg |-> "42"]}
Failures(i) == {ErrOut} \cup PanicOuts(i)
\* The responses of the observers to one chunk.  The loop of dispatch stops
\* at the first observer that fails, so one failing observer per chunk
\* covers every run of the loop.
Behaviours ==
    {[i \in ObsIds |-> OkOut]} \cup
    UNION {{[i \in ObsIds |-> IF i = k THEN out ELSE OkOut] : out \in Failures(k)} :
              k \in ObsIds}

NoPanic == [ptype |-> "none", msg |-> ""]

\* ------------------------------------------------------ teeWriterCallback
\* the observer TeeReader puts in front of the caller's observers
TeeId == 0
\* the errors of the mirror sink: its k-th failure has its own value
MirrorErr(k) == [kind |-> "transport", msg |-> "mirror error", id |-> k]
TeeErrOut(e) == [t |-> "err", ptype |-> "", msg |-> e.msg, err |-> e]
NewTee == [type |-> "teeWriterCallback", w |-> "mirror", errPtr |-> NoErr]
NewMirror == [data |-> <<>>, writes |-> <<>>, fails |-> 0]

\* mutant: every call writes to the mirror sink, whatever happened before
teeOnData_NoCache(t, mr, chunk) ==
    {[out |-> OkOut, err |-> NoErr, t |-> t, io |-> 1,
      mr |-> [mr EXCEPT !.data = @ \o chunk, !.writes = Append(@, chunk)]],
     LET e == MirrorErr(mr.fails + 1)
     IN [out |-> TeeErrOut(e), err |-> e, io |-> 1,
         t |-> [t EXCEPT !.errPtr = IF @ = NoErr THEN e ELSE @],
         mr |-> [mr EXCEPT !.fails = @ + 1]]}

\* teeWriterCallback.OnData: the ways one call can end.  With an error
\* cached it returns it; otherwise it writes the chunk to the mirror sink,
\* which takes it or fails, and caches the error of a failure.
teeOnData(t, mr, chunk) ==
    IF t.errPtr # NoErr
    THEN {[out |-> TeeErrOut(t.errPtr), err |-> t.errPtr, t |-> t, mr |-> mr, io |-> 0]}
    ELSE {[out |-> OkOut, err |-> NoErr, t |-> t, io |-> 1,
           mr |-> [mr EXCEPT !.data = @ \o chunk, !.writes = Append(@, chunk)]],
          LET e == MirrorErr(mr.fails + 1)
          IN [out |-> TeeErrOut(e), err |-> e, io |-> 1,
              t |-> [t EXCEPT !.errPtr = e],
              mr |-> [mr EXCEPT !.fails = @ + 1]]}

\* what OnData of callback cb returned, when it returned an error
errOf(cb, out) == IF cb = TeeId THEN out.err ELSE ObsErr(cb)

\* The registration lists: n distinct observers.  An observer is named by
\* its place in the list (the code does not look at what an observer is).
CallbackLists == {[k \in 1..n |-> k] : n \in 0..MaxObs}

\* mutant: every payload is rendered as text
formatPanic_Sprint(r) == r.msg

formatPanic(r) ==
    CASE r.ptype = "error" -> r.msg
      [] r.ptype = "string" -> r.msg
      [] OTHER -> "unknown panic"

\* the for loop of dispatch: returns the observers invoked, in order, and
\* how the loop ended (nil, an observer's error, or an unwinding panic)
\* mutant: the loop goes on after an observer returned an error
RECURSIVE dispatchLoop_NoHalt(_, _, _, _)
dispatchLoop_NoHalt(callbacks, chunk, behav, i) ==
    IF i > Len(callbacks)
    THEN [calls |-> <<>>, err |-> NoErr, panic |-> NoPanic]
    ELSE LET cb == callbacks[i]
             out == behav[cb]
             call == [cb |-> cb, chunk |-> chunk, out |-> out]
             rest == dispatchLoop_NoHalt(callbacks, chunk, behav, i + 1)
         IN IF out.t = "err"
            THEN [calls |-> <<call>> \o rest.calls, err |-> errOf(cb, out), panic |-> rest.panic]
            ELSE IF out.t = "panic"
            THEN [calls |-> <<call>>, err |-> NoErr,
                  panic |-> [ptype |-> out.ptype, msg |-> out.msg]]
            ELSE [rest EXCEPT !.calls = <<call>> \o rest.calls]

\* calls lists the OnData invocations: the observer, the chunk it was handed
\* and what it did.
RECURSIVE dispatchLoop(_, _, _, _)
dispatchLoop(callbacks, chunk, behav, i) ==
    IF i > Len(callbacks)
    THEN [calls |-> <<>>, err |-> NoErr, panic |-> NoPanic]
    ELSE LET cb == callbacks[i]
             out == behav[cb]
             call == [cb |-> cb, chunk |-> chunk, out |-> out]
         IN IF out.t = "err"
            THEN [calls |-> <<call>>, err |-> errOf(cb, out), panic |-> NoPanic]
            ELSE IF out.t = "panic"
            THEN [calls |-> <<call>>, err |-> NoErr,
                  panic |-> [ptype |-> out.ptype, msg |-> out.msg]]
            ELSE LET rest == dispatchLoop(callbacks, chunk, behav, i + 1)
                 IN [rest EXCEPT !.calls = <<call>> \o rest.calls]

\* mutant: dispatch without its deferred recover()
recoverPanic_Missing(d, id) == d

\* the deferred recover() of dispatch
recoverPanic(d, id) ==
    IF d.panic # NoPanic
    THEN [d EXCEPT !.err = errorsNew("callback panic: " \o formatPanic(d.panic), id),
                   !.panic = NoPanic]
    ELSE d

\* mutant: the loop starts at the second callback
dispatch_SkipsFirst(callbacks, chunk, behav, id) ==
    recoverPanic(dispatchLoop(callbacks, chunk, behav, 2), id)

dispatch(callbacks, chunk, behav, id) ==
    recoverPanic(dispatchLoop(callbacks, chunk, behav, 1), id)

\* The responses to one chunk of the observers of an engine: when the
\* engine was built by TeeReader, the response of its teeWriterCallback is
\* what teeOnData gives in the current state.
BehavioursFor(callbacks, chunk) ==
    IF \E k \in DOMAIN callbacks : callbacks[k] = TeeId
    THEN {[i \in ObsIds \cup {TeeId} |-> IF i = TeeId THEN x.out ELSE b[i]] :
             b \in Behaviours, x \in teeOnData(tee, mirror, chunk)}
    ELSE Behaviours

\* every way one dispatch of a chunk can end
Dispatches(callbacks, chunk, id) ==
    {dispatch(callbacks, chunk, behav, id) : behav \in BehavioursFor(callbacks, chunk)}

NoDispatch == [calls |-> <<>>, err |-> NoErr, panic |-> NoPanic]

\* mutant: a dispatch that failed leaves no trace in the observers
Record_RollsBack(log, calls) ==
    IF calls # <<>> /\ calls[Len(calls)].out # OkOut THEN log
    ELSE [i \in DOMAIN log |->
            IF \E k \in DOMAIN calls : calls[k].cb = i
            THEN Append(log[i], calls[1].chunk) ELSE log[i]]

\* the observers' own record of the chunks they were handed
RECURSIVE Record(_, _)
Record(log, calls) ==
    IF calls = <<>> THEN log
    ELSE LET c == Head(calls)
         IN Record([log EXCEPT ![c.cb] = Append(@, c.chunk)], Tail(calls))

\* Name() and Result() of an observer: its name is fixed, its result is
\* what it has accumulated, here the chunks it was handed
ObsName(i) == names[i]
\* observers with names of their own
OwnNames == [i \in ObsIds |-> "obs" \o ToString(i)]
\* the names observers may carry when names can coincide
NameSet == {"size", "sha256"}
\* mutant: Result() answers with the value the observer was built with
ObsResult_AtConstruction(i, log) == <<>>

ObsResult(i, log) == log[i]

\* mutant: an entry already in the map is kept
RECURSIVE resultsLoop_FirstWins(_, _, _, _)
resultsLoop_FirstWins(callbacks, log, out, i) ==
    IF i > Len(callbacks) THEN out
    ELSE LET nm == ObsName(callbacks[i])
         IN resultsLoop_FirstWins(callbacks, log,
                        [x \in (DOMAIN out) \cup {nm} |->
                            IF x \in DOMAIN out THEN out[x]
                            ELSE ObsResult(callbacks[i], log)],
                        i + 1)

\* `out[cb.Name()] = cb.Result()` for each callback in turn
RECURSIVE resultsLoop(_, _, _, _)
resultsLoop(callbacks, log, out, i) ==
    IF i > Len(callbacks) THEN out
    ELSE LET nm == ObsName(callbacks[i])
         IN resultsLoop(callbacks, log,
                        [x \in (DOMAIN out) \cup {nm} |->
                            IF x = nm THEN ObsResult(callbacks[i], log) ELSE out[x]],
                        i + 1)

\* ---------------------------------------------------------------- source
\* How the source may answer one call, as io.Reader allows: everything it
\* has (up to the size asked), a short read, the last bytes together with
\* EOF, or a transport error after 0 or 1 byte.
Full == Max(MaxP, BufSize)
SrcOutcomes ==
    {[max |-> Full, fail |-> FALSE, eofWithData |-> FALSE],
     [max |-> 1, fail |-> FALSE, eofWithData |-> FALSE],
     [max |-> Full, fail |-> FALSE, eofWithData |-> TRUE],
     [max |-> 0, fail |-> TRUE, eofWithData |-> FALSE],
     [max |-> 1, fail |-> TRUE, eofWithData |-> FALSE]}

SrcRead(src, want, o) ==
    LET rem == Len(src.data) - src.pos
        n == Min(Min(want, rem), o.max)
        e == IF want = 0 THEN NoErr
             ELSE IF o.fail THEN SrcErr
             ELSE IF rem = 0 THEN EOF
             ELSE IF o.eofWithData /\ n = rem THEN EOF
             ELSE NoErr
    IN [n |-> n, data |-> SubSeq(src.data, src.pos + 1, src.pos + n), err |-> e,
        src |-> [src EXCEPT !.pos = src.pos + n]]

SrcReads(src, want) == {SrcRead(src, want, o) : o \in SrcOutcomes}

\* io.ReaderAt: does not move the cursor; n < len(p) comes with an error
SrcReadAt(src, want, off, o) ==
    LET avail == Max(0, Len(src.data) - off)
        n == IF o.fail THEN Min(Min(want, avail), o.max) ELSE Min(want, avail)
        e == IF want = 0 THEN NoErr
             ELSE IF o.fail THEN SrcErr
             ELSE IF n < want THEN EOF
             ELSE IF o.eofWithData /\ n = avail THEN EOF
             ELSE NoErr
    IN [n |-> n, data |-> SubSeq(src.data, off + 1, off + n), err |-> e]

SrcReadAts(src, want, off) == {SrcReadAt(src, want, off, o) : o \in SrcOutcomes}

\* ---------------------------------------------------------- bufio.Reader
NewBufioReader == [buf |-> <<>>, err |-> NoErr]

\* mutant: the bytes read ahead of the caller's request are not kept
bufioFill_DropsReadAhead(b, s, len) ==
    IF s.n = 0
    THEN [n |-> 0, data |-> <<>>, err |-> s.err, b |-> b, src |-> s.src, io |-> 1]
    ELSE [n |-> Min(len, s.n), data |-> Take(s.data, len), err |-> NoErr,
          b |-> [buf |-> <<>>, err |-> s.err], src |-> s.src, io |-> 1]

\* bufio.Reader.Read, small read on an empty buffer: one read s of the
\* source into the internal buffer, then copy as much as fits into p
bufioFill(b, s, len) ==
    IF s.n = 0
    THEN [n |-> 0, data |-> <<>>, err |-> s.err, b |-> b, src |-> s.src, io |-> 1]
    ELSE [n |-> Min(len, s.n), data |-> Take(s.data, len), err |-> NoErr,
          b |-> [buf |-> Drop(s.data, len), err |-> s.err], src |-> s.src, io |-> 1]

\* bufio.Reader.Read(p) with len(p) = len: the set of its possible results
\* (n, data, err), each with the new buffer b, the new source and the
\* number io of calls made on the source
bufioRead(b, src, len) ==
    IF len = 0
    THEN IF Len(b.buf) > 0
         THEN {[n |-> 0, data |-> <<>>, err |-> NoErr, b |-> b, src |-> src, io |-> 0]}
         ELSE {[n |-> 0, data |-> <<>>, err |-> b.err,
                b |-> [b EXCEPT !.err = NoErr], src |-> src, io |-> 0]}
    ELSE IF Len(b.buf) = 0
    THEN IF b.err # NoErr
         THEN {[n |-> 0, data |-> <<>>, err |-> b.err,
                b |-> [b EXCEPT !.err = NoErr], src |-> src, io |-> 0]}
         ELSE IF len >= BufSize
         THEN \* large read, empty buffer: read directly into p
              {[n |-> s.n, data |-> s.data, err |-> s.err, b |-> b,
                src |-> s.src, io |-> 1] : s \in SrcReads(src, len)}
         ELSE {bufioFill(b, s, len) : s \in SrcReads(src, BufSize)}
    ELSE {[n |-> Min(len, Len(b.buf)), data |-> Take(b.buf, len), err |-> NoErr,
           b |-> [b EXCEPT !.buf = Drop(b.buf, len)], src |-> src, io |-> 0]}

\* ------------------------------------------------------- result of a call
\* op, the values returned (n, err), the bytes p[:n] transferred, the number
\* io of calls made on the underlying stream, the observers invoked in
\* order, whether a panic left the call, and (for Reader / Writer /
\* NewReader / NewWriter) the callbacks given
Ret(op, n, err, data, io, calls, escaped, arg) ==
    [op |-> op, n |-> n, err |-> err, data |-> data, io |-> io,
     calls |-> calls, escaped |-> escaped, arg |-> arg]

\* --------------------------------------------------------- BufferedReader
SrcStream == [type |-> "stream", id |-> "src", at |-> source.readerAt]

NewReader(r, cbs) ==
    [type |-> "BufferedReader", src |-> r.id, srcAt |-> IF r.at THEN r.id ELSE "nil",
     buf |-> NewBufioReader, callbacks |-> cbs, err |-> NoErr]

\* mutant: the facade always builds an engine
Reader_AlwaysWraps(r, cbs) == NewReader(r, cbs)

Reader(r, cbs) ==
    IF Len(cbs) = 0 THEN r ELSE NewReader(r, cbs)

\* mutant: the mirror observer is left out
TeeReader_NoMirror(r, w, cbs) == Reader(r, cbs)

\* mutant: the mirror observer is registered after the caller's observers
TeeReader_MirrorLast(r, w, cbs) == Reader(r, cbs \o <<TeeId>>)

\* TeeReader: the teeWriterCallback bound to w goes first
TeeReader(r, w, cbs) == Reader(r, <<TeeId>> \o cbs)

\* mutant: dispatch whenever callbacks are registered
needsDispatch_NoLenCheck(n, callbacks) == Len(callbacks) > 0

\* `if n > 0 && len(br.callbacks) > 0`
needsDispatch(n, callbacks) == n > 0 /\ Len(callbacks) > 0

\* mutant: the callback error is returned but not remembered
finish_NoSticky(op, e, t, d, arg) ==
    IF d.panic # NoPanic
    THEN [e |-> e, ret |-> Ret(op, 0, NoErr, t.data, t.io, d.calls, TRUE, arg)]
    ELSE IF d.err # NoErr
    THEN [e |-> e, ret |-> Ret(op, t.n, d.err, t.data, t.io, d.calls, FALSE, arg)]
    ELSE [e |-> e, ret |-> Ret(op, t.n, t.err, t.data, t.io, d.calls, FALSE, arg)]

\* mutant: a callback error hides the bytes transferred
finish_ZeroOnFail(op, e, t, d, arg) ==
    IF d.panic # NoPanic
    THEN [e |-> e, ret |-> Ret(op, 0, NoErr, t.data, t.io, d.calls, TRUE, arg)]
    ELSE IF d.err # NoErr
    THEN [e |-> [e EXCEPT !.err = d.err],
          ret |-> Ret(op, 0, d.err, t.data, t.io, d.calls, FALSE, arg)]
    ELSE [e |-> e, ret |-> Ret(op, t.n, t.err, t.data, t.io, d.calls, FALSE, arg)]

\* mutant: the error of the transfer is remembered as well
finish_StoresTransferErr(op, e, t, d, arg) ==
    IF d.panic # NoPanic
    THEN [e |-> e, ret |-> Ret(op, 0, NoErr, t.data, t.io, d.calls, TRUE, arg)]
    ELSE IF d.err # NoErr
    THEN [e |-> [e EXCEPT !.err = d.err],
          ret |-> Ret(op, t.n, d.err, t.data, t.io, d.calls, FALSE, arg)]
    ELSE [e |-> [e EXCEPT !.err = t.err],
          ret |-> Ret(op, t.n, t.err, t.data, t.io, d.calls, FALSE, arg)]

\* the end of Read / ReadAt / Write / WriteAt once dispatch came back with
\* d: remember and return the callback error, else return the transfer's
\* (n, err).  A panic that dispatch let through unwinds the call.
finish(op, e, t, d, arg) ==
    IF d.panic # NoPanic
    THEN [e |-> e, ret |-> Ret(op, 0, NoErr, t.data, t.io, d.calls, TRUE, arg)]
    ELSE IF d.err # NoErr
    THEN [e |-> [e EXCEPT !.err = d.err],
          ret |-> Ret(op, t.n, d.err, t.data, t.io, d.calls, FALSE, arg)]
    ELSE [e |-> e, ret |-> Ret(op, t.n, t.err, t.data, t.io, d.calls, FALSE, arg)]

\* the part of Read / ReadAt / Write / WriteAt after the transfer t =
\* (n, data = p[:n], err, io) on engine e: dispatch p[:n], then finish
afterTransfer(op, e, t, id, arg) ==
    {finish(op, e, t, d, arg) :
        d \in IF needsDispatch(t.n, e.callbacks)
              THEN Dispatches(e.callbacks, t.data, id) ELSE {NoDispatch}}

\* mutant: Read without the sticky check
BR_Read_NoCheck(e, src, len, id) ==
    UNION {{[e |-> x.e, src |-> r.src, ret |-> x.ret] :
               x \in afterTransfer("Read", [e EXCEPT !.buf = r.b], r, id, 0)} :
           r \in bufioRead(e.buf, src, len)}

\* mutant: the observers are handed p[:n] and what the buffer read ahead
BR_Read_DispatchesReadAhead(e, src, len, id) ==
    IF e.err # NoErr
    THEN {[e |-> e, src |-> src, ret |-> Ret("Read", 0, e.err, <<>>, 0, <<>>, FALSE, 0)]}
    ELSE UNION {{[e |-> x.e, src |-> r.src, ret |-> x.ret] :
                    x \in afterTransfer("Read", [e EXCEPT !.buf = r.b],
                                        [r EXCEPT !.data = r.data \o r.b.buf], id, 0)} :
                r \in bufioRead(e.buf, src, len)}

\* BufferedReader.Read: the set of (engine, source, returned values) it can
\* end in
BR_Read(e, src, len, id) ==
    IF e.err # NoErr
    THEN {[e |-> e, src |-> src, ret |-> Ret("Read", 0, e.err, <<>>, 0, <<>>, FALSE, 0)]}
    ELSE UNION {{[e |-> x.e, src |-> r.src, ret |-> x.ret] :
                    x \in afterTransfer("Read", [e EXCEPT !.buf = r.b], r, id, 0)} :
                r \in bufioRead(e.buf, src, len)}

\* mutant: the sticky check comes before the capability check
BR_ReadAt_StickyFirst(e, src, len, off, id) ==
    IF e.err # NoErr
    THEN {[e |-> e, ret |-> Ret("ReadAt", 0, e.err, <<>>, 0, <<>>, FALSE, 0)]}
    ELSE IF e.srcAt = "nil"
    THEN {[e |-> e, ret |-> Ret("ReadAt", 0, errorsNew("ReadAt not supported", id),
                                <<>>, 0, <<>>, FALSE, 0)]}
    ELSE UNION {afterTransfer("ReadAt", e, r, id, 0) :
                r \in {[n |-> s.n, data |-> s.data, err |-> s.err, io |-> 1] :
                          s \in SrcReadAts(src, len, off)}}

\* mutant: ReadAt empties the read-ahead buffer
BR_ReadAt_DropsReadAhead(e, src, len, off, id) ==
    IF e.srcAt = "nil"
    THEN {[e |-> e, ret |-> Ret("ReadAt", 0, errorsNew("ReadAt not supported", id),
                                <<>>, 0, <<>>, FALSE, 0)]}
    ELSE IF e.err # NoErr
    THEN {[e |-> e, ret |-> Ret("ReadAt", 0, e.err, <<>>, 0, <<>>, FALSE, 0)]}
    ELSE UNION {afterTransfer("ReadAt", [e EXCEPT !.buf.buf = <<>>], r, id, 0) :
                r \in {[n |-> s.n, data |-> s.data, err |-> s.err, io |-> 1] :
                          s \in SrcReadAts(src, len, off)}}

\* BufferedReader.ReadAt
BR_ReadAt(e, src, len, off, id) ==
    IF e.srcAt = "nil"
    THEN {[e |-> e, ret |-> Ret("ReadAt", 0, errorsNew("ReadAt not supported", id),
                                <<>>, 0, <<>>, FALSE, 0)]}
    ELSE IF e.err # NoErr
    THEN {[e |-> e, ret |-> Ret("ReadAt", 0, e.err, <<>>, 0, <<>>, FALSE, 0)]}
    ELSE UNION {afterTransfer("ReadAt", e, r, id, 0) :
                r \in {[n |-> s.n, data |-> s.data, err |-> s.err, io |-> 1] :
                          s \in SrcReadAts(src, len, off)}}

\* mutant: Results gives up when the sticky error is set
BR_Results_StickyFirst(e, log) ==
    IF e.err # NoErr THEN <<>> ELSE resultsLoop(e.callbacks, log, <<>>, 1)

\* BufferedReader.Results
BR_Results(e, log) == resultsLoop(e.callbacks, log, <<>>, 1)

\* ------------------------------------------------------------------ sink
\* How the sink may answer one Write / WriteAt, as io.Writer allows: all of
\* p, or fewer bytes (0 or 1) together with a transport error.
SinkOutcomes == {[fail |-> FALSE, max |-> 0], [fail |-> TRUE, max |-> 0],
                 [fail |-> TRUE, max |-> 1]}

SinkWrite(sk, p, o) ==
    LET n == IF o.fail THEN Min(o.max, Max(0, Len(p) - 1)) ELSE Len(p)
    IN [n |-> n, err |-> IF o.fail THEN SinkErr ELSE NoErr,
        sk |-> [sk EXCEPT !.data = sk.data \o Take(p, n)]]

SinkWrites(sk, p) == {SinkWrite(sk, p, o) : o \in SinkOutcomes}

\* io.WriterAt; the sink keeps the positional writes it accepted
SinkWriteAt(sk, p, off, o) ==
    LET n == IF o.fail THEN Min(o.max, Max(0, Len(p) - 1)) ELSE Len(p)
    IN [n |-> n, err |-> IF o.fail THEN SinkErr ELSE NoErr,
        sk |-> IF n = 0 THEN sk
               ELSE [sk EXCEPT !.at = Append(sk.at, [off |-> off, data |-> Take(p, n)])]]

SinkWriteAts(sk, p, off) == {SinkWriteAt(sk, p, off, o) : o \in SinkOutcomes}

\* io.Closer of the sink; the sink keeps what its last Close answered
SinkCloses(sk) ==
    {[err |-> x, sk |-> [sk EXCEPT !.closes = sk.closes + 1, !.closeErr = x]] :
        x \in {NoErr, CloseErr}}

\* ---------------------------------------------------------- bufio.Writer
NewBufioWriter == [buf |-> <<>>, err |-> NoErr]

\* mutant: the buffer is emptied without being written to the sink
bufioFlush_Discards(b, sk) ==
    IF b.err # NoErr THEN {[err |-> b.err, b |-> b, sk |-> sk, io |-> 0]}
    ELSE {[err |-> NoErr, b |-> [b EXCEPT !.buf = <<>>], sk |-> sk, io |-> 0]}

\* bufio.Writer.Flush: the set of its possible results
bufioFlush(b, sk) ==
    IF b.err # NoErr THEN {[err |-> b.err, b |-> b, sk |-> sk, io |-> 0]}
    ELSE IF Len(b.buf) = 0 THEN {[err |-> NoErr, b |-> b, sk |-> sk, io |-> 0]}
    ELSE {LET err == IF w.n < Len(b.buf) /\ w.err = NoErr THEN ErrShortWrite ELSE w.err
          IN IF err # NoErr
             THEN [err |-> err, b |-> [buf |-> Drop(b.buf, w.n), err |-> err],
                   sk |-> w.sk, io |-> 1]
             ELSE [err |-> NoErr, b |-> [b EXCEPT !.buf = <<>>], sk |-> w.sk, io |-> 1] :
            w \in SinkWrites(sk, b.buf)}

\* bufio.Writer.Write: the loop `for len(p) > b.Available() && b.err == nil`
\* and the final copy; nn bytes were taken from p and io calls made so far
RECURSIVE bufioWrite(_, _, _, _, _)
bufioWrite(b, sk, p, nn, io) ==
    IF Len(p) > BufSize - Len(b.buf) /\ b.err = NoErr
    THEN IF Len(b.buf) = 0
         THEN \* large write, empty buffer: write directly from p
              UNION {bufioWrite([b EXCEPT !.err = w.err], w.sk, Drop(p, w.n),
                                nn + w.n, io + 1) : w \in SinkWrites(sk, p)}
         ELSE LET n == BufSize - Len(b.buf)
              IN UNION {bufioWrite(f.b, f.sk, Drop(p, n), nn + n, io + f.io) :
                           f \in bufioFlush([b EXCEPT !.buf = b.buf \o Take(p, n)], sk)}
    ELSE IF b.err # NoErr
    THEN {[n |-> nn, err |-> b.err, b |-> b, sk |-> sk, io |-> io]}
    ELSE {[n |-> nn + Len(p), err |-> NoErr, b |-> [b EXCEPT !.buf = b.buf \o p],
           sk |-> sk, io |-> io]}

\* --------------------------------------------------------- BufferedWriter
DstStream == [type |-> "stream", id |-> "dst", at |-> sink.writerAt]

NewWriter(w, cbs) ==
    [type |-> "BufferedWriter", dst |-> w.id, dstAt |-> IF w.at THEN w.id ELSE "nil",
     buf |-> NewBufioWriter, callbacks |-> cbs, err |-> NoErr, closed |-> FALSE]

Writer(w, cbs) ==
    IF Len(cbs) = 0 THEN w ELSE NewWriter(w, cbs)

\* mutant: a closed writer refuses Write
BW_Write_RefusesWhenClosed(e, sk, p, id) ==
    IF e.err # NoErr
    THEN {[e |-> e, sk |-> sk, ret |-> Ret("Write", 0, e.err, <<>>, 0, <<>>, FALSE, 0)]}
    ELSE IF e.closed
    THEN {[e |-> e, sk |-> sk,
           ret |-> Ret("Write", 0, errorsNew("writer closed", id), <<>>, 0, <<>>,
                       FALSE, 0)]}
    ELSE UNION {{[e |-> x.e, sk |-> r.sk, ret |-> x.ret] :
                    x \in afterTransfer("Write", [e EXCEPT !.buf = r.b],
                                   [n |-> r.n, data |-> Take(p, r.n), err |-> r.err,
                                    io |-> r.io], id, 0)} :
                r \in bufioWrite(e.buf, sk, p, 0, 0)}

\* mutant: Write hands nothing to the observers
BW_Write_NoDispatch(e, sk, p, id) ==
    IF e.err # NoErr
    THEN {[e |-> e, sk |-> sk, ret |-> Ret("Write", 0, e.err, <<>>, 0, <<>>, FALSE, 0)]}
    ELSE {LET x == finish("Write", [e EXCEPT !.buf = r.b],
                          [n |-> r.n, data |-> Take(p, r.n), err |-> r.err, io |-> r.io],
                          NoDispatch, 0)
          IN [e |-> x.e, sk |-> r.sk, ret |-> x.ret] :
            r \in bufioWrite(e.buf, sk, p, 0, 0)}

\* BufferedWriter.Write
BW_Write(e, sk, p, id) ==
    IF e.err # NoErr
    THEN {[e |-> e, sk |-> sk, ret |-> Ret("Write", 0, e.err, <<>>, 0, <<>>, FALSE, 0)]}
    ELSE UNION {{[e |-> x.e, sk |-> r.sk, ret |-> x.ret] :
                    x \in afterTransfer("Write", [e EXCEPT !.buf = r.b],
                                   [n |-> r.n, data |-> Take(p, r.n), err |-> r.err,
                                    io |-> r.io], id, 0)} :
                r \in bufioWrite(e.buf, sk, p, 0, 0)}

\* mutant: the buffer is pushed even when the sticky error is set
BW_Flush_PushesAnyway(e, sk) ==
    {LET e1 == [e EXCEPT !.buf = f.b,
                         !.err = IF e.err # NoErr THEN e.err ELSE f.err]
     IN [e |-> e1, sk |-> f.sk,
         ret |-> Ret("Flush", 0, e1.err, <<>>, f.io, <<>>, FALSE, 0)] :
       f \in bufioFlush(e.buf, sk)}

\* mutant: the error of the push is returned but not remembered
BW_Flush_NoStore(e, sk) ==
    IF e.err # NoErr
    THEN {[e |-> e, sk |-> sk, ret |-> Ret("Flush", 0, e.err, <<>>, 0, <<>>, FALSE, 0)]}
    ELSE {[e |-> [e EXCEPT !.buf = f.b], sk |-> f.sk,
           ret |-> Ret("Flush", 0, f.err, <<>>, f.io, <<>>, FALSE, 0)] :
            f \in bufioFlush(e.buf, sk)}

\* mutant: Flush tries again whatever the sticky error, and keeps the
\* outcome of the last push
BW_Flush_Retries(e, sk) ==
    {[e |-> [e EXCEPT !.buf = f.b, !.err = f.err], sk |-> f.sk,
      ret |-> Ret("Flush", 0, f.err, <<>>, f.io, <<>>, FALSE, 0)] :
        f \in bufioFlush(e.buf, sk)}

\* BufferedWriter.Flush
BW_Flush(e, sk) ==
    IF e.err # NoErr
    THEN {[e |-> e, sk |-> sk, ret |-> Ret("Flush", 0, e.err, <<>>, 0, <<>>, FALSE, 0)]}
    ELSE {LET e1 == [e EXCEPT !.buf = f.b,
                              !.err = IF f.err # NoErr THEN f.err ELSE e.err]
          IN [e |-> e1, sk |-> f.sk,
              ret |-> Ret("Flush", 0, e1.err, <<>>, f.io, <<>>, FALSE, 0)] :
            f \in bufioFlush(e.buf, sk)}

\* mutant: WriteAt empties the sequential buffer
BW_WriteAt_DropsBuffer(e, sk, p, off, id) ==
    IF e.dstAt = "nil"
    THEN {[e |-> e, sk |-> sk,
           ret |-> Ret("WriteAt", 0, errorsNew("WriteAt not supported", id), <<>>, 0,
                       <<>>, FALSE, 0)]}
    ELSE IF e.err # NoErr
    THEN {[e |-> e, sk |-> sk, ret |-> Ret("WriteAt", 0, e.err, <<>>, 0, <<>>, FALSE, 0)]}
    ELSE UNION {{[e |-> [x.e EXCEPT !.buf = NewBufioWriter], sk |-> w.sk, ret |-> x.ret] :
                    x \in afterTransfer("WriteAt", e,
                                   [n |-> w.n, data |-> Take(p, w.n), err |-> w.err,
                                    io |-> 1], id, 0)} :
                w \in SinkWriteAts(sk, p, off)}

\* BufferedWriter.WriteAt
BW_WriteAt(e, sk, p, off, id) ==
    IF e.dstAt = "nil"
    THEN {[e |-> e, sk |-> sk,
           ret |-> Ret("WriteAt", 0, errorsNew("WriteAt not supported", id), <<>>, 0,
                       <<>>, FALSE, 0)]}
    ELSE IF e.err # NoErr
    THEN {[e |-> e, sk |-> sk, ret |-> Ret("WriteAt", 0, e.err, <<>>, 0, <<>>, FALSE, 0)]}
    ELSE UNION {{[e |-> x.e, sk |-> w.sk, ret |-> x.ret] :
                    x \in afterTransfer("WriteAt", e,
                                   [n |-> w.n, data |-> Take(p, w.n), err |-> w.err,
                                    io |-> 1], id, 0)} :
                w \in SinkWriteAts(sk, p, off)}

\* mutant: Close without the closed guard
BW_Close_NoGuard(e, sk) ==
    UNION {
      IF f.ret.err # NoErr
      THEN {[e |-> f.e, sk |-> f.sk,
             ret |-> Ret("Close", 0, f.ret.err, <<>>, f.ret.io, <<>>, FALSE, 0)]}
      ELSE IF f.sk.closer
      THEN {[e |-> f.e, sk |-> c.sk,
             ret |-> Ret("Close", 0, c.err, <<>>, f.ret.io + 1, <<>>, FALSE, 0)] :
               c \in SinkCloses(f.sk)}
      ELSE {[e |-> f.e, sk |-> f.sk,
             ret |-> Ret("Close", 0, NoErr, <<>>, f.ret.io, <<>>, FALSE, 0)]} :
      f \in BW_Flush([e EXCEPT !.closed = TRUE], sk)}

\* mutant: the sink is closed even though the Flush failed
BW_Close_ClosesAnyway(e, sk) ==
    IF e.closed
    THEN {[e |-> e, sk |-> sk, ret |-> Ret("Close", 0, NoErr, <<>>, 0, <<>>, FALSE, 0)]}
    ELSE UNION {
           IF f.sk.closer
           THEN {[e |-> f.e, sk |-> c.sk,
                  ret |-> Ret("Close", 0, IF f.ret.err # NoErr THEN f.ret.err ELSE c.err,
                              <<>>, f.ret.io + 1, <<>>, FALSE, 0)] :
                    c \in SinkCloses(f.sk)}
           ELSE {[e |-> f.e, sk |-> f.sk,
                  ret |-> Ret("Close", 0, f.ret.err, <<>>, f.ret.io, <<>>, FALSE, 0)]} :
           f \in BW_Flush([e EXCEPT !.closed = TRUE], sk)}

\* mutant: a sink that failed to close leaves the engine open
BW_Close_ReopensOnError(e, sk) ==
    IF e.closed
    THEN {[e |-> e, sk |-> sk, ret |-> Ret("Close", 0, NoErr, <<>>, 0, <<>>, FALSE, 0)]}
    ELSE UNION {
           IF f.ret.err # NoErr
           THEN {[e |-> f.e, sk |-> f.sk,
                  ret |-> Ret("Close", 0, f.ret.err, <<>>, f.ret.io, <<>>, FALSE, 0)]}
           ELSE IF f.sk.closer
           THEN {[e |-> [f.e EXCEPT !.closed = (c.err = NoErr)], sk |-> c.sk,
                  ret |-> Ret("Close", 0, c.err, <<>>, f.ret.io + 1, <<>>, FALSE, 0)] :
                    c \in SinkCloses(f.sk)}
           ELSE {[e |-> f.e, sk |-> f.sk,
                  ret |-> Ret("Close", 0, NoErr, <<>>, f.ret.io, <<>>, FALSE, 0)]} :
           f \in BW_Flush([e EXCEPT !.closed = TRUE], sk)}

\* BufferedWriter.Close
\* mutant: the error of the sink's Close is kept as the sticky error
BW_Close_StoresCloseErr(e, sk) ==
    IF e.closed
    THEN {[e |-> e, sk |-> sk, ret |-> Ret("Close", 0, NoErr, <<>>, 0, <<>>, FALSE, 0)]}
    ELSE UNION {
           IF f.ret.err # NoErr
           THEN {[e |-> f.e, sk |-> f.sk,
                  ret |-> Ret("Close", 0, f.ret.err, <<>>, f.ret.io, <<>>, FALSE, 0)]}
           ELSE IF f.sk.closer
           THEN {[e |-> [f.e EXCEPT !.err = c.err], sk |-> c.sk,
                  ret |-> Ret("Close", 0, c.err, <<>>, f.ret.io + 1, <<>>, FALSE, 0)] :
                    c \in SinkCloses(f.sk)}
           ELSE {[e |-> f.e, sk |-> f.sk,
                  ret |-> Ret("Close", 0, NoErr, <<>>, f.ret.io, <<>>, FALSE, 0)]} :
           f \in BW_Flush([e EXCEPT !.closed = TRUE], sk)}

BW_Close(e, sk) ==
    IF e.closed
    THEN {[e |-> e, sk |-> sk, ret |-> Ret("Close", 0, NoErr, <<>>, 0, <<>>, FALSE, 0)]}
    ELSE UNION {
           IF f.ret.err # NoErr
           THEN {[e |-> f.e, sk |-> f.sk,
                  ret |-> Ret("Close", 0, f.ret.err, <<>>, f.ret.io, <<>>, FALSE, 0)]}
           ELSE IF f.sk.closer
           THEN {[e |-> f.e, sk |-> c.sk,
                  ret |-> Ret("Close", 0, c.err, <<>>, f.ret.io + 1, <<>>, FALSE, 0)] :
                    c \in SinkCloses(f.sk)}
           ELSE {[e |-> f.e, sk |-> f.sk,
                  ret |-> Ret("Close", 0, NoErr, <<>>, f.ret.io, <<>>, FALSE, 0)]} :
           f \in BW_Flush([e EXCEPT !.closed = TRUE], sk)}

\* BufferedWriter.Results
BW_Results(e, log) == resultsLoop(e.callbacks, log, <<>>, 1)

\* The caller writes the stream of bytes 1, 2, 3, ... in pieces: p holds the
\* len bytes that follow the first k bytes of the stream.
Payload(len, k) == [i \in 1..len |-> k + i]

\* ------------------------------------------------------------- histories
IsCallbackErr(e) ==
    \/ e.kind = "observer"
    \/ e.kind = "errorString" /\ e.msg \notin {"ReadAt not supported", "WriteAt not supported"}

\* the call r ended with a failure of one of its observers
CbFailed(r) == r.calls # <<>> /\ r.calls[Len(r.calls)].out # OkOut

NoFirst == [at |-> 0, op |-> "none", err |-> NoErr]
Note(g, r, k, cond) == IF g.at = 0 /\ cond THEN [at |-> k, op |-> r.op, err |-> r.err] ELSE g

NoteErr(r) == Note(firstErr, r, nOps + 1, r.err \notin {NoErr, EOF})
NoteCbErr(r) == Note(firstCbErr, r, nOps + 1,
                     \/ CbFailed(r) /\ r.err # NoErr
                     \/ r.op = "Flush" /\ r.err # NoErr)

\* ----------------------------------------------------------------- state
Init ==
    /\ mode \in {"read", "write"}
    /\ source \in {[data |-> [i \in 1..n |-> i], pos |-> 0, readerAt |-> a] :
                      n \in IF mode = "read" THEN 0..MaxSrc ELSE {0},
                      a \in IF mode = "read" THEN BOOLEAN ELSE {FALSE}}
    /\ sink \in {[data |-> <<>>, at |-> <<>>, closes |-> 0, closeErr |-> NoErr,
                  writerAt |-> a, closer |-> c] :
                    a \in IF mode = "write" THEN BOOLEAN ELSE {FALSE},
                    c \in IF mode = "write" THEN BOOLEAN ELSE {FALSE}}
    /\ br = Nil
    /\ bw = Nil
    /\ seen = [i \in ObsIds |-> <<>>]
    /\ delivered = <<>>
    /\ accepted = <<>>
    /\ last = Ret("none", 0, NoErr, <<>>, 0, <<>>, FALSE, 0)
    /\ firstErr = NoFirst
    /\ firstCbErr = NoFirst
    /\ nOps = 0
    /\ procs = <<>>
    /\ tee = Nil
    /\ mirror = Nil
    /\ names = OwnNames
    /\ snaps = <<>>
    /\ size = 0
    /\ payload = <<>>

\* the program builds its reader with the facade ...
CallReader ==
    /\ mode = "read" /\ br = Nil
    /\ \E cbs \in CallbackLists :
          /\ br' = Reader(SrcStream, cbs)
          /\ last' = Ret("Reader", 0, NoErr, <<>>, 0, <<>>, FALSE, cbs)
    /\ UNCHANGED <<names, snaps, size, payload, procs, tee, mirror, mode, source, sink, bw, seen, delivered, accepted, nOps, firstErr, firstCbErr>>

\* ... or with the constructor
CallNewReader ==
    /\ mode = "read" /\ br = Nil
    /\ \E cbs \in CallbackLists :
          /\ br' = NewReader(SrcStream, cbs)
          /\ last' = Ret("NewReader", 0, NoErr, <<>>, 0, <<>>, FALSE, cbs)
    /\ UNCHANGED <<names, snaps, size, payload, procs, tee, mirror, mode, source, sink, bw, seen, delivered, accepted, nOps, firstErr, firstCbErr>>

Read ==
    /\ br.type = "BufferedReader" /\ nOps < MaxOps
    /\ \E len \in Lens :
          \E r \in BR_Read(br, source, len, nOps + 1) :
             /\ br' = r.e
             /\ source' = r.src
             /\ seen' = Record(seen, r.ret.calls)
             /\ delivered' = delivered \o Take(r.ret.data, r.ret.n)
             /\ last' = r.ret
             /\ firstErr' = NoteErr(r.ret)
             /\ firstCbErr' = NoteCbErr(r.ret)
    /\ nOps' = nOps + 1
    /\ UNCHANGED <<names, snaps, size, payload, procs, tee, mirror, mode, sink, bw, accepted>>

ReadAt ==
    /\ br.type = "BufferedReader" /\ nOps < MaxOps
    /\ \E len \in Lens, off \in Offsets :
          \E r \in BR_ReadAt(br, source, len, off, nOps + 1) :
             /\ br' = r.e
             /\ seen' = Record(seen, r.ret.calls)
             /\ last' = r.ret
             /\ firstErr' = NoteErr(r.ret)
             /\ firstCbErr' = NoteCbErr(r.ret)
    /\ nOps' = nOps + 1
    /\ UNCHANGED <<names, snaps, size, payload, procs, tee, mirror, mode, source, sink, bw, delivered, accepted>>

ReaderResults ==
    /\ br.type = "BufferedReader" /\ nOps < MaxOps
    /\ last' = Ret("Results", 0, NoErr, BR_Results(br, seen), 0, <<>>, FALSE, 0)
    /\ nOps' = nOps + 1
    /\ UNCHANGED <<names, snaps, size, payload, procs, tee, mirror, mode, source, sink, br, bw, seen, delivered,
                   accepted, firstErr, firstCbErr>>

\* Reader() handed back the source itself: the caller reads it directly
StreamRead ==
    /\ br.type = "stream" /\ nOps < MaxOps
    /\ \E len \in Lens :
          \E s \in SrcReads(source, len) :
             /\ source' = s.src
             /\ delivered' = delivered \o s.data
             /\ last' = Ret("Read", s.n, s.err, s.data, 1, <<>>, FALSE, 0)
    /\ nOps' = nOps + 1
    /\ UNCHANGED <<names, snaps, size, payload, procs, tee, mirror, mode, sink, br, bw, seen, accepted, firstErr, firstCbErr>>

CallWriter ==
    /\ mode = "write" /\ bw = Nil
    /\ \E cbs \in CallbackLists :
          /\ bw' = Writer(DstStream, cbs)
          /\ last' = Ret("Writer", 0, NoErr, <<>>, 0, <<>>, FALSE, cbs)
    /\ UNCHANGED <<names, snaps, size, payload, procs, tee, mirror, mode, source, sink, br, seen, delivered, accepted, nOps, firstErr, firstCbErr>>

CallNewWriter ==
    /\ mode = "write" /\ bw = Nil
    /\ \E cbs \in CallbackLists :
          /\ bw' = NewWriter(DstStream, cbs)
          /\ last' = Ret("NewWriter", 0, NoErr, <<>>, 0, <<>>, FALSE, cbs)
    /\ UNCHANGED <<names, snaps, size, payload, procs, tee, mirror, mode, source, sink, br, seen, delivered, accepted, nOps, firstErr, firstCbErr>>

Write ==
    /\ bw.type = "BufferedWriter" /\ nOps < MaxOps
    /\ \E len \in Lens :
          \E r \in BW_Write(bw, sink, Payload(len, Len(accepted)), nOps + 1) :
             /\ bw' = r.e
             /\ sink' = r.sk
             /\ seen' = Record(seen, r.ret.calls)
             /\ accepted' = accepted \o Take(r.ret.data, r.ret.n)
             /\ last' = r.ret
             /\ firstErr' = NoteErr(r.ret)
             /\ firstCbErr' = NoteCbErr(r.ret)
    /\ nOps' = nOps + 1
    /\ UNCHANGED <<names, snaps, size, payload, procs, tee, mirror, mode, source, br, delivered>>

WriteAt ==
    /\ bw.type = "BufferedWriter" /\ nOps < MaxOps
    /\ \E len \in Lens, off \in Offsets :
          \E r \in BW_WriteAt(bw, sink, Payload(len, off), off, nOps + 1) :
             /\ bw' = r.e
             /\ sink' = r.sk
             /\ seen' = Record(seen, r.ret.calls)
             /\ last' = r.ret
             /\ firstErr' = NoteErr(r.ret)
             /\ firstCbErr' = NoteCbErr(r.ret)
    /\ nOps' = nOps + 1
    /\ UNCHANGED <<names, snaps, size, payload, procs, tee, mirror, mode, source, br, delivered, accepted>>

Flush ==
    /\ bw.type = "BufferedWriter" /\ nOps < MaxOps
    /\ \E r \in BW_Flush(bw, sink) :
          /\ bw' = r.e
          /\ sink' = r.sk
          /\ last' = r.ret
          /\ firstErr' = NoteErr(r.ret)
          /\ firstCbErr' = NoteCbErr(r.ret)
    /\ nOps' = nOps + 1
    /\ UNCHANGED <<names, snaps, size, payload, procs, tee, mirror, mode, source, br, seen, delivered, accepted>>

Close ==
    /\ bw.type = "BufferedWriter" /\ nOps < MaxOps
    /\ \E r \in BW_Close(bw, sink) :
          /\ bw' = r.e
          /\ sink' = r.sk
          /\ last' = r.ret
          /\ UNCHANGED <<firstErr, firstCbErr>>
    /\ nOps' = nOps + 1
    /\ UNCHANGED <<names, snaps, size, payload, procs, tee, mirror, mode, source, br, seen, delivered, accepted>>

WriterResults ==
    /\ bw.type = "BufferedWriter" /\ nOps < MaxOps
    /\ last' = Ret("Results", 0, NoErr, BW_Results(bw, seen), 0, <<>>, FALSE, 0)
    /\ nOps' = nOps + 1
    /\ UNCHANGED <<names, snaps, size, payload, procs, tee, mirror, mode, source, sink, br, bw, seen, delivered,
                   accepted, firstErr, firstCbErr>>

\* Writer() handed back the sink itself: the caller writes to it directly
StreamWrite ==
    /\ bw.type = "stream" /\ nOps < MaxOps
    /\ \E len \in Lens :
          \E w \in SinkWrites(sink, Payload(len, Len(accepted))) :
             /\ sink' = w.sk
             /\ accepted' = accepted \o Take(Payload(len, Len(accepted)), w.n)
             /\ last' = Ret("Write", w.n, w.err, Take(Payload(len, Len(accepted)), w.n),
                            1, <<>>, FALSE, 0)
    /\ nOps' = nOps + 1
    /\ UNCHANGED <<names, snaps, size, payload, procs, tee, mirror, mode, source, br, bw, seen, delivered, firstErr, firstCbErr>>

Next ==
    \/ CallReader
    \/ CallNewReader
    \/ Read
    \/ ReadAt
    \/ ReaderResults
    \/ StreamRead
    \/ CallWriter
    \/ CallNewWriter
    \/ Write
    \/ WriteAt
    \/ Flush
    \/ Close
    \/ WriterResults
    \/ StreamWrite

Spec == Init /\ [][Next]_vars

\* ------------------------------------------------- Close, called concurrently
\* Several goroutines call Close on one BufferedWriter.  A call is three
\* steps: the compare-and-swap of the closed flag, the Flush, and the Close
\* of the sink; the steps of different calls interleave freely.
Procs == 1..MaxProcs
IdleProc == [pc |-> "idle", won |-> FALSE, err |-> NoErr, io |-> 0]

\* mutant: every call gets past the guard
closeGuard_AlwaysWins(e) == [ok |-> TRUE, e |-> [e EXCEPT !.closed = TRUE]]

\* mutant: the flag is tested but not swapped
closeGuard_LoadOnly(e) == [ok |-> ~e.closed, e |-> e]

\* `bw.closed.CompareAndSwap(false, true)`: one atomic step
closeGuard(e) == [ok |-> ~e.closed, e |-> [e EXCEPT !.closed = TRUE]]

\* the engine was built by NewWriter and has served one sequential Write
InitClose ==
    /\ mode = "write"
    /\ source = [data |-> <<>>, pos |-> 0, readerAt |-> FALSE]
    /\ br = Nil
    /\ delivered = <<>>
    /\ firstErr = NoFirst
    /\ firstCbErr = NoFirst
    /\ nOps = 1
    /\ procs = [p \in Procs |-> IdleProc]
    /\ tee = Nil
    /\ mirror = Nil
    /\ names = OwnNames
    /\ snaps = <<>>
    /\ size = 0
    /\ payload = <<>>
    /\ \E a \in BOOLEAN, c \in BOOLEAN, cbs \in CallbackLists, len \in Lens :
          LET sk0 == [data |-> <<>>, at |-> <<>>, closes |-> 0, closeErr |-> NoErr,
                      writerAt |-> a, closer |-> c]
              w == [type |-> "stream", id |-> "dst", at |-> a]
          IN \E r \in BW_Write(NewWriter(w, cbs), sk0, Payload(len, 0), 1) :
                /\ bw = r.e
                /\ sink = r.sk
                /\ seen = Record([i \in ObsIds |-> <<>>], r.ret.calls)
                /\ accepted = Take(r.ret.data, r.ret.n)
                /\ last = r.ret

\* Close, line 122: the guard.  A call that loses returns nil at once.
CloseGuard ==
    \E p \in Procs :
       /\ procs[p].pc = "idle"
       /\ LET g == closeGuard(bw)
          IN /\ bw' = g.e
             /\ procs' = [procs EXCEPT ![p] =
                             IF g.ok THEN [@ EXCEPT !.pc = "flush", !.won = TRUE]
                             ELSE [@ EXCEPT !.pc = "done"]]
       /\ UNCHANGED <<names, snaps, size, payload, mode, source, sink, br, seen, delivered, accepted, last,
                      firstErr, firstCbErr, nOps, tee, mirror>>

\* Close, lines 127-129: the Flush; its error ends the call
CloseFlush ==
    \E p \in Procs :
       /\ procs[p].pc = "flush"
       /\ \E f \in BW_Flush(bw, sink) :
             /\ bw' = f.e
             /\ sink' = f.sk
             /\ procs' = [procs EXCEPT ![p] =
                             IF f.ret.err # NoErr
                             THEN [@ EXCEPT !.pc = "done", !.err = f.ret.err,
                                            !.io = f.ret.io]
                             ELSE [@ EXCEPT !.pc = "closer", !.io = f.ret.io]]
       /\ UNCHANGED <<names, snaps, size, payload, mode, source, br, seen, delivered, accepted, last,
                      firstErr, firstCbErr, nOps, tee, mirror>>

\* Close, lines 132-136: the Close of the sink, when it has one
CloseCloser ==
    \E p \in Procs :
       /\ procs[p].pc = "closer"
       /\ IF sink.closer
          THEN \E c \in SinkCloses(sink) :
                  /\ sink' = c.sk
                  /\ procs' = [procs EXCEPT ![p] = [@ EXCEPT !.pc = "done", !.err = c.err,
                                                            !.io = @ + 1]]
          ELSE /\ sink' = sink
               /\ procs' = [procs EXCEPT ![p] = [@ EXCEPT !.pc = "done"]]
       /\ UNCHANGED <<names, snaps, size, payload, mode, source, br, bw, seen, delivered, accepted, last,
                      firstErr, firstCbErr, nOps, tee, mirror>>

NextClose ==
    \/ CloseGuard
    \/ CloseFlush
    \/ CloseCloser

SpecClose == InitClose /\ [][NextClose]_vars

\* --------------------------------------------------------------- TeeReader
\* One behaviour follows either the reader that TeeReader returned
\* (mode "tee") or a teeWriterCallback whose OnData is called directly
\* (mode "teecb").
InitTee ==
    /\ mode \in {"tee", "teecb"}
    /\ source \in {[data |-> [i \in 1..n |-> i], pos |-> 0, readerAt |-> FALSE] :
                      n \in IF mode = "tee" THEN 0..MaxSrc ELSE {0}}
    /\ sink = [data |-> <<>>, at |-> <<>>, closes |-> 0, closeErr |-> NoErr,
               writerAt |-> FALSE, closer |-> FALSE]
    /\ br = Nil
    /\ bw = Nil
    /\ seen = [i \in ObsIds |-> <<>>]
    /\ delivered = <<>>
    /\ accepted = <<>>
    /\ last = Ret("none", 0, NoErr, <<>>, 0, <<>>, FALSE, 0)
    /\ firstErr = NoFirst
    /\ firstCbErr = NoFirst
    /\ nOps = 0
    /\ procs = <<>>
    /\ tee = Nil
    /\ mirror = Nil
    /\ names = OwnNames
    /\ snaps = <<>>
    /\ size = 0
    /\ payload = <<>>

CallTeeReader ==
    /\ mode = "tee" /\ br = Nil
    /\ \E cbs \in CallbackLists :
          /\ br' = TeeReader(SrcStream, "mirror", cbs)
          /\ last' = Ret("TeeReader", 0, NoErr, <<>>, 0, <<>>, FALSE, cbs)
    /\ tee' = NewTee
    /\ mirror' = NewMirror
    /\ UNCHANGED <<names, snaps, size, payload, procs, mode, source, sink, bw, seen, delivered, accepted, nOps,
                   firstErr, firstCbErr>>

\* the calls of the caller's observers among the OnData calls of a dispatch
RECURSIVE ObsCalls(_)
ObsCalls(calls) ==
    IF calls = <<>> THEN <<>>
    ELSE IF Head(calls).cb = TeeId THEN ObsCalls(Tail(calls))
    ELSE <<Head(calls)>> \o ObsCalls(Tail(calls))

\* Read on the reader TeeReader returned
TeeRead ==
    /\ mode = "tee" /\ br.type = "BufferedReader" /\ nOps < MaxOps
    /\ \E len \in Lens :
          \E r \in BR_Read(br, source, len, nOps + 1) :
             /\ br' = r.e
             /\ source' = r.src
             /\ seen' = Record(seen, ObsCalls(r.ret.calls))
             /\ delivered' = delivered \o Take(r.ret.data, r.ret.n)
             /\ last' = r.ret
             /\ firstErr' = NoteErr(r.ret)
             /\ firstCbErr' = NoteCbErr(r.ret)
             /\ IF r.ret.calls # <<>> /\ r.ret.calls[1].cb = TeeId
                THEN LET x == CHOOSE x \in teeOnData(tee, mirror, r.ret.calls[1].chunk) :
                                  x.out = r.ret.calls[1].out
                     IN tee' = x.t /\ mirror' = x.mr
                ELSE tee' = tee /\ mirror' = mirror
    /\ nOps' = nOps + 1
    /\ UNCHANGED <<names, snaps, size, payload, procs, mode, sink, bw, accepted>>

\* a teeWriterCallback on its own
CallNewTee ==
    /\ mode = "teecb" /\ tee = Nil
    /\ tee' = NewTee
    /\ mirror' = NewMirror
    /\ last' = Ret("teeWriterCallback", 0, NoErr, <<>>, 0, <<>>, FALSE, <<>>)
    /\ UNCHANGED <<names, snaps, size, payload, procs, mode, source, sink, br, bw, seen, delivered, accepted, nOps,
                   firstErr, firstCbErr>>

\* OnData called on it with the next bytes of a stream 1, 2, 3, ...
TeeOnData ==
    /\ mode = "teecb" /\ tee # Nil /\ nOps < MaxOps
    /\ \E len \in Lens :
          LET chunk == Payload(len, Len(accepted))
          IN \E x \in teeOnData(tee, mirror, chunk) :
                /\ tee' = x.t
                /\ mirror' = x.mr
                /\ accepted' = accepted \o chunk
                /\ last' = Ret("OnData", 0, x.err, chunk, x.io, <<>>, FALSE, 0)
                /\ firstErr' = NoteErr(last')
    /\ nOps' = nOps + 1
    /\ UNCHANGED <<names, snaps, size, payload, procs, mode, source, sink, br, bw, seen, delivered, firstCbErr>>

NextTee ==
    \/ CallTeeReader
    \/ TeeRead
    \/ CallNewTee
    \/ TeeOnData

SpecTee == InitTee /\ [][NextTee]_vars

\* ----------------------------------------------------------------- Results
\* One behaviour follows an engine built by NewReader or NewWriter whose
\* observers carry names that may coincide; transfers and Results calls
\* alternate freely.  Every map a Results call returns is kept in snaps,
\* next to what the observers had accumulated when the call was made.
InitResults ==
    /\ mode \in {"read", "write"}
    /\ source = [data |-> [i \in 1..MaxSrc |-> i], pos |-> 0, readerAt |-> FALSE]
    /\ sink = [data |-> <<>>, at |-> <<>>, closes |-> 0, closeErr |-> NoErr,
               writerAt |-> FALSE, closer |-> FALSE]
    /\ names \in [ObsIds -> NameSet]
    /\ \E cbs \in CallbackLists :
          /\ br = IF mode = "read" THEN NewReader(SrcStream, cbs) ELSE Nil
          /\ bw = IF mode = "write" THEN NewWriter(DstStream, cbs) ELSE Nil
    /\ seen = [i \in ObsIds |-> <<>>]
    /\ delivered = <<>>
    /\ accepted = <<>>
    /\ last = Ret("none", 0, NoErr, <<>>, 0, <<>>, FALSE, 0)
    /\ firstErr = NoFirst
    /\ firstCbErr = NoFirst
    /\ nOps = 0
    /\ procs = <<>>
    /\ tee = Nil
    /\ mirror = Nil
    /\ snaps = <<>>
    /\ size = 0
    /\ payload = <<>>

Snap(out) == [out |-> out, log |-> seen]

ResRead ==
    /\ mode = "read" /\ nOps < MaxOps
    /\ \E len \in Lens :
          \E r \in BR_Read(br, source, len, nOps + 1) :
             /\ br' = r.e
             /\ source' = r.src
             /\ seen' = Record(seen, r.ret.calls)
             /\ delivered' = delivered \o Take(r.ret.data, r.ret.n)
             /\ last' = r.ret
    /\ nOps' = nOps + 1
    /\ UNCHANGED <<names, snaps, size, payload, procs, tee, mirror, mode, sink, bw,
                   accepted, firstErr, firstCbErr>>

ResWrite ==
    /\ mode = "write" /\ nOps < MaxOps
    /\ \E len \in Lens :
          \E r \in BW_Write(bw, sink, Payload(len, Len(accepted)), nOps + 1) :
             /\ bw' = r.e
             /\ sink' = r.sk
             /\ seen' = Record(seen, r.ret.calls)
             /\ accepted' = accepted \o Take(r.ret.data, r.ret.n)
             /\ last' = r.ret
    /\ nOps' = nOps + 1
    /\ UNCHANGED <<names, snaps, size, payload, procs, tee, mirror, mode, source, br,
                   delivered, firstErr, firstCbErr>>

ResReaderResults ==
    /\ mode = "read" /\ nOps < MaxOps
    /\ last' = Ret("Results", 0, NoErr, BR_Results(br, seen), 0, <<>>, FALSE, 0)
    /\ snaps' = Append(snaps, Snap(BR_Results(br, seen)))
    /\ nOps' = nOps + 1
    /\ UNCHANGED <<names, size, payload, procs, tee, mirror, mode, source, sink, br, bw,
                   seen, delivered, accepted, firstErr, firstCbErr>>

ResWriterResults ==
    /\ mode = "write" /\ nOps < MaxOps
    /\ last' = Ret("Results", 0, NoErr, BW_Results(bw, seen), 0, <<>>, FALSE, 0)
    /\ snaps' = Append(snaps, Snap(BW_Results(bw, seen)))
    /\ nOps' = nOps + 1
    /\ UNCHANGED <<names, size, payload, procs, tee, mirror, mode, source, sink, br, bw,
                   seen, delivered, accepted, firstErr, firstCbErr>>

NextResults ==
    \/ ResRead
    \/ ResWrite
    \/ ResReaderResults
    \/ ResWriterResults

SpecResults == InitResults /\ [][NextResults]_vars

\* ------------------------------------------------------------- formatPanic
\* The values a panic can carry, by dynamic type: an error (msg is what
\* its Error() returns), a string, and values of other types, among them
\* nil and a value of a defined type whose underlying type is string.  For
\* those msg is how the value would print.
Payloads ==
    {[ptype |-> "error", msg |-> t] : t \in {"test error", "", "unknown panic"}} \cup
    {[ptype |-> "string", msg |-> t] : t \in {"string panic", "", "test error"}} \cup
    {[ptype |-> "int", msg |-> "123"],
     [ptype |-> "nil", msg |-> "<nil>"],
     [ptype |-> "definedString", msg |-> "string panic"],
     [ptype |-> "bytes", msg |-> "[1 2]"]}

InitPanic ==
    /\ mode = "panic"
    /\ payload \in UNION {[1..n -> Payloads] : n \in 1..MaxPay}
    /\ source = [data |-> <<>>, pos |-> 0, readerAt |-> FALSE]
    /\ sink = [data |-> <<>>, at |-> <<>>, closes |-> 0, closeErr |-> NoErr,
               writerAt |-> FALSE, closer |-> FALSE]
    /\ br = Nil
    /\ bw = Nil
    /\ seen = [i \in ObsIds |-> <<>>]
    /\ delivered = <<>>
    /\ accepted = <<>>
    /\ last = Ret("none", 0, NoErr, <<>>, 0, <<>>, FALSE, 0)
    /\ firstErr = NoFirst
    /\ firstCbErr = NoFirst
    /\ nOps = 0
    /\ procs = <<>>
    /\ tee = Nil
    /\ mirror = Nil
    /\ names = OwnNames
    /\ snaps = <<>>
    /\ size = 0

\* formatPanic applied to the next payload
FormatPanic ==
    /\ mode = "panic" /\ nOps < Len(payload)
    /\ last' = Ret("formatPanic", 0, NoErr, formatPanic(payload[nOps + 1]), 0, <<>>,
                   FALSE, payload[nOps + 1])
    /\ nOps' = nOps + 1
    /\ UNCHANGED <<names, snaps, size, payload, procs, tee, mirror, mode, source, sink,
                   br, bw, seen, delivered, accepted, firstErr, firstCbErr>>

NextPanic == FormatPanic

SpecPanic == InitPanic /\ [][NextPanic]_vars

\* ------------------------------------------------------------ SizeCallback
\* Several goroutines share one SizeCallback and call its OnData, each any
\* number of times.  A call has two steps: it is entered with a chunk
\* (int64(len(chunk)) is evaluated), and it adds.  Each goroutine keeps the
\* value the size field had when its call was entered (view), the total
\* length of the chunks of its calls that returned (sent), and whether
\* another goroutine's add fell between the two steps of its last call.
IdleCaller == [pc |-> "idle", len |-> 0, view |-> 0, sent |-> 0, raced |-> FALSE]

\* mutant: the add is a plain load at entry followed by a plain store
atomicAddInt64_LoadThenStore(cur, view, delta) == view + delta

\* `atomic.AddInt64(&sc.size, delta)`: the field is read and written in one
\* indivisible step, so delta is added to the value the field has at that
\* step (cur), whatever it was when the call was entered (view)
atomicAddInt64(cur, view, delta) == cur + delta

\* `atomic.LoadInt64(&sc.size)`
atomicLoadInt64(cur) == cur

\* NewSizeCallback
NewSizeCallback == 0

InitSize ==
    /\ mode = "size"
    /\ size = NewSizeCallback
    /\ procs = [g \in Procs |-> IdleCaller]
    /\ source = [data |-> <<>>, pos |-> 0, readerAt |-> FALSE]
    /\ sink = [data |-> <<>>, at |-> <<>>, closes |-> 0, closeErr |-> NoErr,
               writerAt |-> FALSE, closer |-> FALSE]
    /\ br = Nil
    /\ bw = Nil
    /\ seen = [i \in ObsIds |-> <<>>]
    /\ delivered = <<>>
    /\ accepted = <<>>
    /\ last = Ret("none", 0, NoErr, <<>>, 0, <<>>, FALSE, 0)
    /\ firstErr = NoFirst
    /\ firstCbErr = NoFirst
    /\ nOps = 0
    /\ tee = Nil
    /\ mirror = Nil
    /\ names = OwnNames
    /\ snaps = <<>>
    /\ payload = <<>>

\* goroutine g enters OnData with a chunk of len bytes
SizeOnDataEnter ==
    /\ mode = "size" /\ nOps < MaxOps
    /\ \E g \in Procs, len \in Lens :
          /\ procs[g].pc = "idle"
          /\ procs' = [procs EXCEPT ![g].pc = "add", ![g].len = len,
                                     ![g].view = size, ![g].raced = FALSE]
    /\ nOps' = nOps + 1
    /\ UNCHANGED <<names, snaps, size, payload, tee, mirror, mode, source, sink, br, bw,
                   seen, delivered, accepted, last, firstErr, firstCbErr>>

\* line 64 of OnData, then `return nil`
SizeOnDataAdd ==
    /\ mode = "size"
    /\ \E g \in Procs :
          /\ procs[g].pc = "add"
          /\ size' = atomicAddInt64(size, procs[g].view, procs[g].len)
          /\ procs' = [procs EXCEPT ![g].pc = "idle",
                                     ![g].sent = @ + procs[g].len,
                                     ![g].raced = (procs[g].view # size)]
    /\ UNCHANGED <<names, snaps, payload, tee, mirror, mode, source, sink, br, bw,
                   seen, delivered, accepted, last, nOps, firstErr, firstCbErr>>

\* Size(), called when no OnData call is running
SizeSize ==
    /\ mode = "size"
    /\ \A g \in Procs : procs[g].pc = "idle"
    /\ last' = Ret("Size", atomicLoadInt64(size), NoErr, <<>>, 0, <<>>, FALSE, 0)
    /\ UNCHANGED <<names, snaps, size, payload, procs, tee, mirror, mode, source, sink,
                   br, bw, seen, delivered, accepted, nOps, firstErr, firstCbErr>>

NextSize ==
    \/ SizeOnDataEnter
    \/ SizeOnDataAdd
    \/ SizeSize

SpecSize == InitSize /\ [][NextSize]_vars

\* ------------------------------------------- Read / Write, called concurrently
\* Several goroutines call Read on one BufferedReader (mode "raceR") or
\* Write on one BufferedWriter (mode "raceW") with no synchronisation.  A
\* call takes four steps: the sticky check, the transfer on the buffered
\* stream, the dispatch, and the rest (storing a dispatch error,
\* returning); steps of different calls interleave freely.  The engine has
\* no lock, so the read of the sticky slot in the check races with the
\* stores of the other goroutines: it yields the value in memory or the
\* nil the slot was built with.  Two goroutines make one call each, with a
\* buffer p that is not empty; calls on the buffered stream are taken one
\* at a time; the values a call returns are not kept, and of a dispatch the
\* call keeps how it ended and how many observers it invoked.
Racers == {1, 2}
NoTransfer == [n |-> 0, data |-> <<>>, err |-> NoErr, io |-> 0]
IdleCall == [pc |-> "idle", len |-> 0, id |-> 0, view |-> NoErr, clean |-> TRUE,
             late |-> FALSE, t |-> NoTransfer, d |-> NoDispatch, invoked |-> 0,
             own |-> NoErr]
\* a call that has returned: own is the dispatch error it stored, if any
DoneCall(c, own) == [IdleCall EXCEPT !.pc = "done", !.id = c.id, !.view = c.view,
                                     !.own = own]
RaceEngine == IF mode = "raceR" THEN br ELSE bw
RaceOp == IF mode = "raceR" THEN "Read" ELSE "Write"

\* what goroutine g can read from the sticky slot
stickyLoads(e) == {e.err, NoErr}

\* mutant: the method goes on whatever the slot holds
stickyCheck_Skipped(v) == FALSE

\* `if br.err != nil { return 0, br.err }`
stickyCheck(v) == v # NoErr

InitRace ==
    /\ mode \in {"raceR", "raceW"}
    /\ source = [data |-> [i \in 1..(IF mode = "raceR" THEN MaxSrc ELSE 0) |-> i],
                 pos |-> 0, readerAt |-> FALSE]
    /\ sink = [data |-> <<>>, at |-> <<>>, closes |-> 0, closeErr |-> NoErr,
               writerAt |-> FALSE, closer |-> FALSE]
    /\ \E cbs \in CallbackLists :
          /\ br = IF mode = "raceR" THEN NewReader(SrcStream, cbs) ELSE Nil
          /\ bw = IF mode = "raceW" THEN NewWriter(DstStream, cbs) ELSE Nil
    /\ procs = [g \in Racers |-> IdleCall]
    /\ seen = [i \in ObsIds |-> <<>>]
    /\ delivered = <<>>
    /\ accepted = <<>>
    /\ last = Ret("none", 0, NoErr, <<>>, 0, <<>>, FALSE, 0)
    /\ firstErr = NoFirst
    /\ firstCbErr = NoFirst
    /\ nOps = 0
    /\ tee = Nil
    /\ mirror = Nil
    /\ names = OwnNames
    /\ snaps = <<>>
    /\ size = 0
    /\ payload = <<>>

\* goroutine g calls Read / Write: the sticky check
RaceCheck ==
    /\ mode \in {"raceR", "raceW"}
    /\ \E g \in Racers, len \in Lens \ {0}, v \in stickyLoads(RaceEngine) :
          /\ procs[g].pc = "idle"
          /\ procs' = [procs EXCEPT ![g] =
                          IF stickyCheck(v)
                          THEN DoneCall([IdleCall EXCEPT !.id = nOps + 1, !.view = v],
                                        NoErr)
                          ELSE [IdleCall EXCEPT !.pc = "io", !.id = nOps + 1,
                                                !.view = v, !.len = len,
                                                !.clean = (RaceEngine.err = NoErr)]]
    /\ nOps' = nOps + 1
    /\ UNCHANGED <<names, snaps, size, payload, tee, mirror, mode, source, sink, br, bw,
                   seen, delivered, accepted, last, firstErr, firstCbErr>>

\* `br.buf.Read(p)` / `bw.buf.Write(p)`
RaceTransfer ==
    /\ mode \in {"raceR", "raceW"}
    /\ \E g \in Racers :
          /\ procs[g].pc = "io"
          /\ IF mode = "raceR"
             THEN \E r \in bufioRead(br.buf, source, procs[g].len) :
                     /\ br' = [br EXCEPT !.buf = r.b]
                     /\ source' = r.src
                     /\ procs' = [procs EXCEPT ![g].pc = "dispatch",
                                     ![g].late = (br.err # NoErr),
                                     ![g].t = [n |-> r.n, data |-> r.data,
                                               err |-> r.err, io |-> r.io]]
                     /\ UNCHANGED <<bw, sink, accepted>>
             ELSE LET p == Payload(procs[g].len, Len(accepted))
                  IN \E r \in bufioWrite(bw.buf, sink, p, 0, 0) :
                        /\ bw' = [bw EXCEPT !.buf = r.b]
                        /\ sink' = r.sk
                        /\ accepted' = accepted \o Take(p, r.n)
                        /\ procs' = [procs EXCEPT ![g].pc = "dispatch",
                                        ![g].late = (bw.err # NoErr),
                                        ![g].t = [n |-> r.n, data |-> Take(p, r.n),
                                                  err |-> r.err, io |-> r.io]]
                        /\ UNCHANGED <<br, source>>
    /\ UNCHANGED <<names, snaps, size, payload, tee, mirror, mode, seen, delivered, last,
                   nOps, firstErr, firstCbErr>>

\* `if n > 0 && len(br.callbacks) > 0 { ... br.dispatch(p[:n]) ...`
RaceDispatch ==
    /\ mode \in {"raceR", "raceW"}
    /\ \E g \in Racers :
          /\ procs[g].pc = "dispatch"
          /\ \E d \in IF needsDispatch(procs[g].t.n, RaceEngine.callbacks)
                       THEN Dispatches(RaceEngine.callbacks, procs[g].t.data, procs[g].id)
                       ELSE {NoDispatch} :
                /\ seen' = Record(seen, d.calls)
                /\ procs' = [procs EXCEPT ![g].pc = "finish",
                                           ![g].d = [d EXCEPT !.calls = <<>>],
                                           ![g].invoked = Len(d.calls)]
    /\ UNCHANGED <<names, snaps, size, payload, tee, mirror, mode, source, sink, br, bw,
                   delivered, accepted, last, nOps, firstErr, firstCbErr>>

\* `br.err = cbErr; return n, cbErr` or `return n, err`
RaceFinish ==
    /\ mode \in {"raceR", "raceW"}
    /\ \E g \in Racers :
          /\ procs[g].pc = "finish"
          /\ LET x == finish(RaceOp, RaceEngine, procs[g].t, procs[g].d, 0)
             IN /\ br' = IF mode = "raceR" THEN x.e ELSE br
                /\ bw' = IF mode = "raceW" THEN x.e ELSE bw
                /\ procs' = [procs EXCEPT ![g] = DoneCall(procs[g], procs[g].d.err)]
    /\ UNCHANGED <<names, snaps, size, payload, tee, mirror, mode, source, sink, seen,
                   delivered, accepted, last, nOps, firstErr, firstCbErr>>

NextRace ==
    \/ RaceCheck
    \/ RaceTransfer
    \/ RaceDispatch
    \/ RaceFinish

SpecRace == InitRace /\ [][NextRace]_vars

\* ------------------------------------------- teeWriterCallback, concurrent
\* Several goroutines call OnData of one teeWriterCallback.  The call is
\* three steps on shared state: the atomic load of errPtr, the Write on
\* the mirror sink, and the compare-and-swap of errPtr after a failure.
IdleTee == [pc |-> "idle", id |-> 0, after |-> FALSE, err |-> NoErr,
            ret |-> NoErr, io |-> 0]

\* `t.errPtr.Load()`
errPtrLoad(t) == t.errPtr

\* mutant: the error is stored whatever the pointer holds
errPtrCompareAndSwap_Store(t, old, new) == [t EXCEPT !.errPtr = new]

\* `t.errPtr.CompareAndSwap(nil, &err)`
errPtrCompareAndSwap(t, old, new) ==
    IF t.errPtr = old THEN [t EXCEPT !.errPtr = new] ELSE t

InitTeeRace ==
    /\ mode = "teerace"
    /\ source = [data |-> <<>>, pos |-> 0, readerAt |-> FALSE]
    /\ sink = [data |-> <<>>, at |-> <<>>, closes |-> 0, closeErr |-> NoErr,
               writerAt |-> FALSE, closer |-> FALSE]
    /\ br = Nil
    /\ bw = Nil
    /\ tee = NewTee
    /\ mirror = NewMirror
    /\ procs = [g \in Procs |-> IdleTee]
    /\ seen = [i \in ObsIds |-> <<>>]
    /\ delivered = <<>>
    /\ accepted = <<>>
    /\ last = Ret("none", 0, NoErr, <<>>, 0, <<>>, FALSE, 0)
    /\ firstErr = NoFirst
    /\ firstCbErr = NoFirst
    /\ nOps = 0
    /\ names = OwnNames
    /\ snaps = <<>>
    /\ size = 0
    /\ payload = <<>>

\* goroutine g enters OnData with a chunk of its own; `after` notes
\* whether an error was already stored when the call started
TeeRaceCall ==
    /\ mode = "teerace" /\ nOps < MaxOps
    /\ \E g \in Procs :
          /\ procs[g].pc \in {"idle", "done"}
          /\ procs' = [procs EXCEPT ![g] =
                          [IdleTee EXCEPT !.pc = "load", !.id = nOps + 1,
                                          !.after = (tee.errPtr # NoErr)]]
    /\ nOps' = nOps + 1
    /\ UNCHANGED <<names, snaps, size, payload, tee, mirror, mode, source, sink, br, bw,
                   seen, delivered, accepted, last, firstErr, firstCbErr>>

\* `if err := t.errPtr.Load(); err != nil { return *err }`
TeeRaceLoad ==
    /\ mode = "teerace"
    /\ \E g \in Procs :
          /\ procs[g].pc = "load"
          /\ LET v == errPtrLoad(tee)
             IN procs' = [procs EXCEPT ![g].pc = IF v # NoErr THEN "done" ELSE "write",
                                        ![g].ret = v]
    /\ UNCHANGED <<names, snaps, size, payload, tee, mirror, mode, source, sink, br, bw,
                   seen, delivered, accepted, last, nOps, firstErr, firstCbErr>>

\* `_, err := t.w.Write(chunk)`: the mirror sink takes the chunk or fails
TeeRaceWrite ==
    /\ mode = "teerace"
    /\ \E g \in Procs :
          /\ procs[g].pc = "write"
          /\ \/ /\ mirror' = [mirror EXCEPT !.data = @ \o <<procs[g].id>>,
                                             !.writes = Append(@, <<procs[g].id>>)]
                /\ procs' = [procs EXCEPT ![g].pc = "done", ![g].io = 1]
             \/ /\ mirror' = [mirror EXCEPT !.fails = @ + 1]
                /\ procs' = [procs EXCEPT ![g].pc = "cas", ![g].io = 1,
                                           ![g].err = MirrorErr(mirror.fails + 1)]
    /\ UNCHANGED <<names, snaps, size, payload, tee, mode, source, sink, br, bw,
                   seen, delivered, accepted, last, nOps, firstErr, firstCbErr>>

\* `t.errPtr.CompareAndSwap(nil, &err); return err`
TeeRaceCAS ==
    /\ mode = "teerace"
    /\ \E g \in Procs :
          /\ procs[g].pc = "cas"
          /\ tee' = errPtrCompareAndSwap(tee, NoErr, procs[g].err)
          /\ procs' = [procs EXCEPT ![g].pc = "done", ![g].ret = procs[g].err]
    /\ UNCHANGED <<names, snaps, size, payload, mirror, mode, source, sink, br, bw,
                   seen, delivered, accepted, last, nOps, firstErr, firstCbErr>>

NextTeeRace ==
    \/ TeeRaceCall
    \/ TeeRaceLoad
    \/ TeeRaceWrite
    \/ TeeRaceCAS

SpecTeeRace == InitTeeRace /\ [][NextTeeRace]_vars

\* ================================================================ claims
Engine == IF mode = "read" THEN br ELSE bw
IsEngine == Engine.type \in {"BufferedReader", "BufferedWriter"}
Callbacks == IF IsEngine THEN Engine.callbacks ELSE <<>>
TransferOps == {"Read", "ReadAt", "Write", "WriteAt"}
EngineOps == TransferOps \cup {"Flush"}
IsPrefix(a, b) == Len(a) <= Len(b) /\ a = SubSeq(b, 1, Len(a))
LastCall == last.calls[Len(last.calls)]
CallOrder(r) == [k \in 1..Len(r.calls) |-> r.calls[k].cb]
\* a positional call on an engine whose stream lacks the capability
Unsupported ==
    \/ last.op = "ReadAt" /\ mode = "read" /\ br.srcAt = "nil"
    \/ last.op = "WriteAt" /\ mode = "write" /\ bw.dstAt = "nil"
\* the call `last` came back with the sticky error and did nothing else
ShortCircuited(err) == last.err = err /\ last.io = 0 /\ last.calls = <<>>
\* the text formatPanic is specified to extract from a panic payload
ExpectedMsg(out) ==
    IF out.ptype \in {"error", "string"} THEN out.msg ELSE "unknown panic"

C2_NextCallShortCircuits ==
    [][(/\ IsEngine /\ CbFailed(last) /\ last.op \in {"Read", "Write"}
        /\ nOps' = nOps + 1 /\ last'.op = last.op)
       => (/\ last'.n = 0 /\ last'.err = last.err /\ last.err # NoErr
           /\ last'.calls = <<>> /\ last'.io = 0
           /\ source' = source /\ sink' = sink /\ seen' = seen
           /\ br' = br /\ bw' = bw)]_vars

C2_Witness ==
    /\ IsEngine /\ firstCbErr.op = "Write" /\ firstCbErr.at = nOps - 1
    /\ firstCbErr.err = ObsErr(Callbacks[1])
    /\ last.op = "Write" /\ last.n = 0 /\ last.err = firstCbErr.err
    /\ Len(accepted) = MaxP

\* C3: a call that transfers a non-empty chunk p[:n] and in which no
\* observer fails invokes every registered observer exactly once, in
\* registration order, each with exactly p[:n].
C3_EachObserverOnceInOrder ==
    [][(/\ nOps' = nOps + 1 /\ IsEngine /\ last'.op \in TransferOps
        /\ last'.n > 0 /\ ~CbFailed(last'))
       => (/\ CallOrder(last') = Callbacks
           /\ Len(last'.data) = last'.n
           /\ \A k \in 1..Len(last'.calls) : last'.calls[k].chunk = last'.data
           /\ \A i \in ObsIds :
                 seen'[i] = IF \E k \in DOMAIN Callbacks : Callbacks[k] = i
                            THEN Append(seen[i], last'.data) ELSE seen[i])]_vars

C3_Witness ==
    /\ IsEngine /\ last.op = "ReadAt" /\ last.n = 2 /\ ~CbFailed(last)
    /\ Len(Callbacks) = 2 /\ CallOrder(last) = Callbacks
    /\ seen[Callbacks[2]] = <<last.data>>

\* C4: dispatch halts at the first failing observer: the observer that
\* fails is the last one invoked, those before it are the registered ones
\* in order, and the call returns the error of that observer.
C4_HaltsAtFirstFailure ==
    IsEngine =>
        \A k \in 1..Len(last.calls) :
            /\ last.calls[k].cb = Callbacks[k]
            /\ last.calls[k].out # OkOut =>
                  /\ k = Len(last.calls)
                  /\ last.calls[k].out.t = "err" => last.err = ObsErr(Callbacks[k])
                  /\ last.calls[k].out.t = "panic" =>
                        last.err.kind = "errorString" /\ last.err.id = nOps

C4_Witness ==
    /\ IsEngine /\ Len(Callbacks) = 2 /\ Len(last.calls) = 1
    /\ LastCall.out.t = "err" /\ last.err = ObsErr(Callbacks[1])
    /\ seen[Callbacks[2]] = <<>>

\* C5: no observer is ever invoked with an empty chunk, and a call that
\* transfers zero bytes invokes no observer.
C5_NoEmptyChunk ==
    /\ \A i \in ObsIds : \A k \in 1..Len(seen[i]) : seen[i][k] # <<>>
    /\ last.n = 0 => last.calls = <<>>

C5_Witness ==
    /\ IsEngine /\ Len(Callbacks) > 0 /\ last.op = "Read" /\ last.n = 0
    /\ last.io = 1 /\ last.err = SrcErr /\ last.calls = <<>>

\* C6: when an observer fails on a chunk of n > 0 bytes, the call returns
\* n (not 0) with the observer's error, and that error is the engine's
\* sticky error when the call returns.
C6_FailureKeepsCount ==
    (IsEngine /\ last.op \in TransferOps /\ CbFailed(last))
        => /\ last.n = Len(last.data) /\ last.n > 0
           /\ LastCall.chunk = last.data
           /\ IsCallbackErr(last.err)
           /\ Engine.err = last.err

C6_Witness ==
    /\ IsEngine /\ last.op = "WriteAt" /\ CbFailed(last)
    /\ last.n = MaxP /\ bw.err = last.err /\ Len(sink.at) = 1

\* C7: a panic inside OnData never leaves Read / ReadAt / Write / WriteAt:
\* the call returns the error "callback panic: " + message, which is made
\* the sticky error like an observer error.
C7_PanicBecomesError ==
    /\ ~last.escaped
    /\ (IsEngine /\ last.calls # <<>> /\ LastCall.out.t = "panic")
          => /\ last.err = errorsNew("callback panic: " \o ExpectedMsg(LastCall.out), nOps)
             /\ Engine.err = last.err
             /\ last.n = Len(last.data)

C7_Witness ==
    /\ IsEngine /\ last.op = "Read" /\ last.calls # <<>>
    /\ LastCall.out.t = "panic" /\ LastCall.out.ptype = "string"
    /\ last.err.msg = "callback panic: bad" \o ToString(LastCall.cb)

\* C8: Reader / Writer with no observer return the stream they were given;
\* with observers they return a new engine bound to that stream and to the
\* observers in the given order.
C8_FacadeIdentity ==
    /\ last.op = "Reader" =>
          IF Len(last.arg) = 0 THEN br = SrcStream
          ELSE /\ br.type = "BufferedReader" /\ br.src = SrcStream.id
               /\ br.callbacks = last.arg /\ br.err = NoErr /\ br.buf.buf = <<>>
    /\ last.op = "Writer" =>
          IF Len(last.arg) = 0 THEN bw = DstStream
          ELSE /\ bw.type = "BufferedWriter" /\ bw.dst = DstStream.id
               /\ bw.callbacks = last.arg /\ bw.err = NoErr /\ bw.buf.buf = <<>>

C8_Witness ==
    last.op = "Reader" /\ last.arg = <<>> /\ br = SrcStream /\ br.type = "stream"

\* C9: the bytes returned by successive Reads are a prefix of the source
\* content (nothing lost, duplicated or reordered), and when Read reports
\* end-of-stream they are the whole content.
C9_ReadContractPreserved ==
    mode = "read" =>
        /\ IsPrefix(delivered, source.data)
        /\ (last.op = "Read" /\ last.err = EOF) => delivered = source.data

C9_Witness ==
    /\ IsEngine /\ mode = "read" /\ Len(Callbacks) > 0
    /\ last.op = "Read" /\ last.err = EOF
    /\ Len(source.data) >= 3 /\ delivered = source.data

\* C10: only the first Close flushes and closes the sink; every later
\* Close returns nil and changes neither the engine nor the sink, so the
\* sink's Close is called at most once.
C10_CloseIdempotent ==
    /\ [](sink.closes <= 1)
    /\ [][(mode = "write" /\ IsEngine /\ bw.closed /\ nOps' = nOps + 1
           /\ last'.op = "Close")
          => (last'.err = NoErr /\ last'.io = 0 /\ sink' = sink /\ bw' = bw)]_vars

C10_Witness ==
    /\ mode = "write" /\ IsEngine /\ bw.closed /\ bw.err = NoErr
    /\ sink.closer /\ sink.closes = 1
    /\ last.op = "Close" /\ last.io = 0 /\ last.err = NoErr

\* C11: for any interleaving of concurrent Close calls on one write engine,
\* exactly one call passes the closed guard and it alone flushes and closes
\* the sink; every other call returns nil without any I/O; the sink's Close
\* is called at most once.
Winners == {p \in Procs : procs[p].won}
C11_ConcurrentCloseOnce ==
    /\ Cardinality(Winners) <= 1
    /\ (\E p \in Procs : procs[p].pc # "idle") => Cardinality(Winners) = 1
    /\ \A p \in Procs :
          /\ (procs[p].pc \in {"flush", "closer"}) => procs[p].won
          /\ (procs[p].pc = "done" /\ ~procs[p].won) =>
                 procs[p].err = NoErr /\ procs[p].io = 0
          /\ (procs[p].pc = "done" /\ procs[p].won /\ bw.err = NoErr) =>
                 /\ bw.buf.buf = <<>> /\ sink.data = accepted
                 /\ sink.closes = IF sink.closer THEN 1 ELSE 0
    /\ sink.closes <= 1
    /\ sink.closes = 1 => \E p \in Winners : procs[p].pc = "done"

C11_Witness ==
    /\ \A p \in Procs : procs[p].pc = "done"
    /\ Cardinality(Winners) = 1
    /\ sink.closes = 1 /\ sink.data # <<>> /\ sink.data = accepted

\* a step that is one call of Close
CloseStep == mode = "write" /\ IsEngine /\ nOps' = nOps + 1 /\ last'.op = "Close"

\* C12: when the Flush inside the first Close fails (the sticky error was
\* set before, or the push to the sink fails), Close returns that error,
\* does not call the sink's Close and marks the engine closed; from then on
\* every Close returns nil and the sink is never closed.
C12_FlushFailureSkipsSinkClose ==
    /\ [][(CloseStep /\ ~bw.closed /\ bw'.err # NoErr)
            => (/\ last'.err = bw'.err
                /\ bw.err # NoErr => (bw'.err = bw.err /\ sink' = sink)
                /\ bw'.closed
                /\ sink'.closes = 0)]_vars
    /\ [][(mode = "write" /\ IsEngine /\ bw.closed /\ sink.closes = 0)
            => (/\ sink'.closes = 0
                /\ bw'.closed
                /\ CloseStep => (last'.err = NoErr /\ last'.io = 0))]_vars

C12_Witness ==
    /\ mode = "write" /\ IsEngine /\ bw.closed /\ sink.closer /\ sink.closes = 0
    /\ firstCbErr.at = 0 /\ bw.err = SinkErr /\ bw.buf.buf # <<>>
    /\ last.op = "Close" /\ last.err = NoErr /\ last.io = 0

\* C13: when the first Close flushes successfully and the sink's Close
\* answers an error, Close returns that error, every accepted byte has
\* reached the sink, and the engine is marked closed: every later Close
\* returns nil and does not call the sink's Close again.
C13_CloseErrorStillCloses ==
    /\ [][(CloseStep /\ ~bw.closed /\ bw'.err = NoErr /\ sink.closer)
            => (/\ sink'.closes = sink.closes + 1
                /\ last'.err = sink'.closeErr
                /\ bw'.closed
                /\ bw'.buf.buf = <<>>
                /\ sink'.data = accepted)]_vars
    /\ [][(CloseStep /\ bw.closed /\ sink.closeErr # NoErr)
            => (last'.err = NoErr /\ last'.io = 0 /\ sink' = sink /\ bw' = bw)]_vars

C13_Witness ==
    /\ mode = "write" /\ IsEngine /\ bw.closed /\ bw.err = NoErr
    /\ sink.closes = 1 /\ sink.closeErr = CloseErr
    /\ sink.data = accepted /\ sink.data # <<>>
    /\ last.op = "Close" /\ last.err = NoErr /\ last.io = 0

\* C14: ReadAt on an engine whose source has no positional read, and
\* WriteAt on an engine whose sink has no positional write, return 0 and
\* the unsupported-operation error at once: the underlying stream is not
\* called, the internal buffer is not touched and no observer is invoked.
C14_UnsupportedFailsAtOnce ==
    [][(/\ IsEngine /\ nOps' = nOps + 1
        /\ \/ mode = "read" /\ last'.op = "ReadAt" /\ br.srcAt = "nil"
           \/ mode = "write" /\ last'.op = "WriteAt" /\ bw.dstAt = "nil")
       => (/\ last'.n = 0
           /\ last'.err = errorsNew(last'.op \o " not supported", nOps')
           /\ last'.io = 0 /\ last'.calls = <<>>
           /\ source' = source /\ sink' = sink /\ br' = br /\ bw' = bw
           /\ seen' = seen /\ delivered' = delivered /\ accepted' = accepted)]_vars

C14_Witness ==
    /\ mode = "read" /\ IsEngine /\ br.srcAt = "nil" /\ last.op = "ReadAt"
    /\ last.n = 0 /\ last.err.msg = "ReadAt not supported"
    /\ br.err # NoErr /\ br.buf.buf # <<>>

\* what one call of Flush does: with the sticky error set it returns it and
\* leaves the sink and the engine alone; otherwise it pushes the buffer to
\* the sink, and the error of the push is stored as the sticky error and
\* returned
FlushStep == mode = "write" /\ IsEngine /\ nOps' = nOps + 1 /\ last'.op = "Flush"
C15_FlushAction ==
    FlushStep =>
        IF bw.err # NoErr
        THEN last'.err = bw.err /\ last'.io = 0 /\ sink' = sink /\ bw' = bw
        ELSE /\ last'.err = bw'.err
             /\ IsPrefix(sink.data, sink'.data)
             /\ IsPrefix(sink'.data, sink.data \o bw.buf.buf)
             /\ last'.err = NoErr =>
                   (sink'.data = sink.data \o bw.buf.buf /\ bw'.buf.buf = <<>>)

C16_FlushDeliversAccepted ==
    [][(/\ mode = "write" /\ IsEngine /\ nOps' = nOps + 1
        /\ last'.op = "Flush" \/ (last'.op = "Close" /\ ~bw.closed)
        /\ last'.err = NoErr /\ bw'.err = NoErr)
       => (sink'.data = accepted' /\ bw'.buf.buf = <<>>)]_vars

C16_Witness ==
    /\ mode = "write" /\ IsEngine /\ nOps = 3 /\ bw.err = NoErr
    /\ last.op = "Flush" /\ last.err = NoErr /\ last.io = 1
    /\ Len(accepted) = MaxP + 1 /\ sink.data = accepted /\ bw.buf.buf = <<>>

\* C17: end-of-stream is handed to the caller and never stored: after a
\* Read or ReadAt returned EOF the sticky slot is unset, and the next call
\* is not short-circuited: a ReadAt calls the source, and a Read that
\* follows a Read calls the source unless p is empty (then it returns
\* (0, nil)).
C17_EOFNotSticky ==
    /\ []((mode = "read" /\ IsEngine /\ last.op \in {"Read", "ReadAt"} /\ last.err = EOF)
           => br.err = NoErr)
    /\ [][(/\ mode = "read" /\ IsEngine /\ last.op \in {"Read", "ReadAt"}
            /\ last.err = EOF /\ nOps' = nOps + 1)
           => (/\ (last'.op = "ReadAt" /\ br.srcAt # "nil") => last'.io = 1
               /\ (last.op = "Read" /\ last'.op = "Read") =>
                      (last'.io = 1 \/ (last'.n = 0 /\ last'.err = NoErr)))]_vars

C17_Witness ==
    /\ mode = "read" /\ IsEngine /\ Len(Callbacks) > 0 /\ br.err = NoErr
    /\ source.data = <<>> /\ nOps = 3
    /\ last.op = "Read" /\ last.err = EOF /\ last.io = 1

\* C18: once the sticky slot of an engine is set, no call (Read, ReadAt,
\* Write, WriteAt, Flush, Close, Results) clears it or puts another error
\* in it.
C18_StickyNeverChanges ==
    [][(IsEngine /\ Engine.err # NoErr) => Engine'.err = Engine.err]_vars

C18_Witness ==
    /\ mode = "write" /\ IsEngine /\ nOps = 3 /\ firstCbErr.at = 1
    /\ bw.err = firstCbErr.err /\ IsCallbackErr(bw.err)
    /\ last.op = "Close" /\ last.err = bw.err

\* C19: while neither the mirror sink nor an observer has failed, each
\* Read through the reader of TeeReader that returns n > 0 bytes makes one
\* Write of exactly those bytes on the mirror sink and hands exactly those
\* bytes to every observer; the mirror sink therefore holds the bytes
\* returned so far, and the whole source content once Read reports EOF.
TeeHealthy ==
    mode = "tee" /\ br.type = "BufferedReader" /\ br.err = NoErr /\ mirror.fails = 0
C19_TeeThreeWays ==
    /\ []((mode = "tee" /\ br # Nil) =>
            /\ br.type = "BufferedReader" /\ br.callbacks[1] = TeeId
            /\ last.op = "TeeReader" => br.callbacks = <<TeeId>> \o last.arg)
    /\ [](TeeHealthy =>
            /\ mirror.data = delivered
            /\ \A k \in 2..Len(br.callbacks) : seen[br.callbacks[k]] = mirror.writes
            /\ (last.op = "Read" /\ last.err = EOF) => mirror.data = source.data)
    /\ [][(TeeHealthy /\ TeeHealthy' /\ nOps' = nOps + 1 /\ last'.op = "Read")
            => IF last'.n > 0
               THEN /\ mirror'.writes = Append(mirror.writes, last'.data)
                    /\ Len(last'.data) = last'.n
                    /\ delivered' = delivered \o last'.data
                    /\ CallOrder(last') = br.callbacks
               ELSE mirror' = mirror /\ last'.calls = <<>>]_vars

C19_Witness ==
    /\ TeeHealthy /\ Len(br.callbacks) = MaxObs + 1
    /\ last.op = "Read" /\ last.err = EOF
    /\ Len(source.data) = MaxSrc /\ mirror.data = source.data
    /\ Len(mirror.writes) >= 2 /\ seen[1] = mirror.writes

\* C20: the teeWriterCallback caches the error of its first failed write:
\* from then on every OnData returns that same error value and makes no
\* Write on the mirror sink, whatever the sink would answer.
C20_TeeErrorIsSticky ==
    /\ [][(mode = "teecb" /\ tee # Nil /\ nOps' = nOps + 1 /\ last'.op = "OnData")
            => IF tee.errPtr # NoErr
               THEN /\ last'.err = tee.errPtr /\ last'.io = 0
                    /\ mirror' = mirror /\ tee' = tee
               ELSE /\ last'.io = 1
                    /\ tee'.errPtr = last'.err]_vars
    /\ []((mode = "teecb" /\ firstErr.at > 0 /\ last.op = "OnData" /\ nOps > firstErr.at)
           => (last.err = firstErr.err /\ last.io = 0 /\ mirror.fails = 1))

C20_Witness ==
    /\ mode = "teecb" /\ tee # Nil /\ firstErr.at = 1 /\ nOps = 3
    /\ last.op = "OnData" /\ last.err = MirrorErr(1) /\ last.io = 0
    /\ mirror.data = <<>> /\ Len(accepted) > 0

\* the observers registered under the name nm, by place in the list
Named(nm) == {i \in 1..Len(Callbacks) : names[Callbacks[i]] = nm}
RegisteredNames == {names[Callbacks[i]] : i \in 1..Len(Callbacks)}

\* C21: the map a Results call returns has one entry per registered name,
\* and for every registered observer whose name no other registered
\* observer carries, the entry under its name is what the observer had
\* accumulated at the moment of that call; this holds for each call anew,
\* so snapshots taken before and after a transfer each show the state at
\* their own time.
C21_ResultsAreCurrent ==
    \A k \in DOMAIN snaps :
       /\ DOMAIN snaps[k].out = RegisteredNames
       /\ \A i \in 1..Len(Callbacks) :
             Named(names[Callbacks[i]]) = {i}
                => snaps[k].out[names[Callbacks[i]]] = snaps[k].log[Callbacks[i]]

\* two snapshots around a transfer that reached two observers with
\* distinct names: the snapshots differ
C21_Witness ==
    /\ Len(snaps) = 2
    /\ Len(Callbacks) = 2
    /\ names[1] # names[2]
    /\ snaps[1].out[names[1]] = <<>>
    /\ snaps[2].out[names[1]] # <<>>
    /\ snaps[2].out[names[2]] # <<>>

\* C22: formatPanic returns the Error() text of a payload that is an
\* error, the string itself for a payload that is a string, and
\* "unknown panic" for a payload of any other type, an integer and nil
\* among them.
C22_FormatPanicCases ==
    last.op = "formatPanic" =>
       /\ last.arg.ptype \in {"error", "string"} => last.data = last.arg.msg
       /\ last.arg.ptype \notin {"error", "string"} => last.data = "unknown panic"

\* an error payload was formatted, then nil
C22_Witness ==
    /\ last.op = "formatPanic" /\ nOps = 2
    /\ payload[1] = [ptype |-> "error", msg |-> "test error"]
    /\ payload[2].ptype = "nil"
    /\ last.data = "unknown panic"

RECURSIVE SumSent(_)
SumSent(G) ==
    IF G = {} THEN 0
    ELSE LET g == CHOOSE x \in G : TRUE IN procs[g].sent + SumSent(G \ {g})
AllReturned == \A g \in Procs : procs[g].pc = "idle"

\* C23: whenever every OnData call made on the shared SizeCallback has
\* returned, the size field, and so what Size() returns, is the sum of the
\* lengths of all chunks passed, however the calls interleaved.
C23_SizeLosesNoUpdate ==
    (mode = "size" /\ AllReturned) => atomicLoadInt64(size) = SumSent(Procs)

\* two goroutines have added, the add of one fell between the entry and
\* the add of the other, and Size() was read afterwards
C23_Witness ==
    /\ mode = "size" /\ AllReturned
    /\ \E g \in Procs, h \in Procs :
          /\ g # h
          /\ procs[g].raced /\ procs[g].len > 0
          /\ procs[h].sent > 0
    /\ last.op = "Size" /\ last.n = SumSent(Procs) /\ last.n > 1

\* a WriteAt call that got past both checks of a writer with positional
\* capability
WriteAtStep ==
    /\ mode = "write" /\ IsEngine /\ nOps' = nOps + 1 /\ last'.op = "WriteAt"
    /\ bw.dstAt # "nil" /\ bw.err = NoErr

\* C24: a WriteAt on a writer whose sink can write at an offset makes one
\* WriteAt call on the sink, which records p[:n] there; the sequential
\* buffer and what the sink received sequentially stay as they were; and
\* when n > 0 the observers are invoked with p[:n] in registration order,
\* up to the first that fails (all of them when none fails).
C24_WriteAtBypassesBuffer ==
    [][WriteAtStep =>
          /\ last'.io = 1
          /\ bw'.buf = bw.buf
          /\ sink'.data = sink.data
          /\ accepted' = accepted
          /\ Len(last'.data) = last'.n
          /\ sink'.at = IF last'.n = 0 THEN sink.at
                        ELSE Append(sink.at, [off |-> last'.data[1] - 1,
                                              data |-> last'.data])
          /\ IsPrefix(CallOrder(last'), Callbacks)
          /\ \A k \in 1..Len(last'.calls) : last'.calls[k].chunk = last'.data
          /\ last'.n = 0 => last'.calls = <<>>
          /\ (last'.n > 0 /\ ~CbFailed(last')) => CallOrder(last') = Callbacks
          /\ seen' = Record(seen, last'.calls)]_vars

\* two bytes written at an offset while a sequentially written byte waits
\* in the buffer; both observers were handed the two bytes
C24_Witness ==
    /\ mode = "write" /\ IsEngine /\ last.op = "WriteAt" /\ last.n = 2
    /\ bw.buf.buf # <<>> /\ sink.data = <<>>
    /\ sink.at = <<[off |-> MaxOff, data |-> last.data]>>
    /\ Len(Callbacks) = 2 /\ seen[2] = <<accepted, last.data>>

\* a Read of the reader built by TeeReader that dispatched a chunk
TeeDispatchStep ==
    /\ mode = "tee" /\ br.type = "BufferedReader" /\ nOps' = nOps + 1
    /\ last'.op = "Read" /\ last'.calls # <<>>

\* C25: in every dispatch of the reader built by TeeReader the mirror
\* observer is invoked first, so its write to the mirror sink precedes
\* every OnData of the caller's observers; when that write fails no
\* observer of the caller is invoked for the chunk, and the error of the
\* mirror write is returned and becomes the sticky error of the reader.
C25_MirrorGoesFirst ==
    [][TeeDispatchStep =>
          /\ last'.calls[1].cb = TeeId
          /\ \A k \in 2..Len(last'.calls) : last'.calls[k].cb # TeeId
          /\ IF last'.calls[1].out = OkOut
             THEN /\ mirror'.writes = Append(mirror.writes, last'.data)
                  /\ seen' = Record(seen, ObsCalls(last'.calls))
             ELSE /\ Len(last'.calls) = 1
                  /\ seen' = seen
                  /\ mirror'.fails = mirror.fails + 1
                  /\ last'.err = MirrorErr(mirror'.fails)
                  /\ br'.err = last'.err
                  /\ tee'.errPtr = last'.err]_vars

\* a first chunk went to the mirror and to both observers; the mirror
\* write of the second chunk failed and the observers were not invoked
C25_Witness ==
    /\ mode = "tee" /\ br.type = "BufferedReader" /\ Len(br.callbacks) = 3
    /\ last.op = "Read" /\ last.n > 0 /\ Len(last.calls) = 1
    /\ last.calls[1].cb = TeeId /\ last.calls[1].out # OkOut
    /\ br.err = MirrorErr(1) /\ last.err = MirrorErr(1)
    /\ Len(mirror.writes) = 1
    /\ seen[1] = mirror.writes /\ seen[2] = mirror.writes

\* the place of the observer registered last under the name nm
LastNamed(nm) == CHOOSE i \in Named(nm) : \A j \in Named(nm) : j <= i

\* C26: when several registered observers share a name, the map a Results
\* call returns has exactly one entry per registered name, and the entry
\* of a shared name is the result of the observer registered last under
\* it; the call returns the map and signals no error.
C26_LaterObserverWins ==
    /\ \A k \in DOMAIN snaps :
          /\ DOMAIN snaps[k].out = RegisteredNames
          /\ \A nm \in RegisteredNames :
                Cardinality(Named(nm)) > 1
                   => snaps[k].out[nm] = snaps[k].log[Callbacks[LastNamed(nm)]]
    /\ last.op = "Results" => (last.err = NoErr /\ ~last.escaped /\ last.calls = <<>>)

\* two observers share a name; the first was handed a chunk and failed, so
\* the second was not; the entry under the name is the second's, empty
C26_Witness ==
    /\ Len(Callbacks) = 2 /\ names[1] = names[2]
    /\ last.op = "Results" /\ Len(snaps) = 1
    /\ snaps[1].log[1] # <<>> /\ snaps[1].log[2] = <<>>
    /\ DOMAIN snaps[1].out = {names[1]}
    /\ snaps[1].out[names[1]] = <<>>

\* goroutine g made its transfer when the sticky slot was already set
Late(g) == procs[g].pc \in {"dispatch", "finish"} /\ procs[g].late

\* C27: with calls of several goroutines running on one engine, a call can
\* transfer and dispatch although the sticky slot is already set; it is
\* always a call whose own sticky check read the slot as unset, and the
\* slot was set by a failed dispatch of another goroutine's call.
C27_LateCallPassedItsCheck ==
    mode \in {"raceR", "raceW"} =>
       \A g \in Racers :
          /\ procs[g].pc \in {"io", "dispatch", "finish"} => procs[g].view = NoErr
          /\ Late(g) =>
                /\ procs[g].view = NoErr
                /\ \E h \in Racers \ {g} : procs[h].own # NoErr

\* goroutine h has stored the error of its failed dispatch; goroutine g,
\* whose check came before that store, has since made a call on the
\* underlying stream and dispatched the chunk to the observers
C27_Witness ==
    /\ mode \in {"raceR", "raceW"}
    /\ \E g \in Racers, h \in Racers :
          /\ g # h
          /\ procs[h].own # NoErr /\ RaceEngine.err = procs[h].own
          /\ procs[h].pc = "done"
          /\ procs[g].pc = "finish" /\ procs[g].late /\ procs[g].clean
          /\ procs[g].t.io > 0 /\ procs[g].t.n > 0
          /\ procs[g].invoked > 0

NotSupported == {"ReadAt not supported", "WriteAt not supported"}
\* the next call is positional and the engine's stream lacks the capability
UnsupportedStep ==
    /\ IsEngine /\ nOps' = nOps + 1
    /\ \/ mode = "read" /\ last'.op = "ReadAt" /\ br.srcAt = "nil"
       \/ mode = "write" /\ last'.op = "WriteAt" /\ bw.dstAt = "nil"

\* C28: a ReadAt / WriteAt on an engine without positional capability
\* returns the unsupported-operation error whether or not the sticky slot
\* is set, and leaves the slot as it was; the error is a new value each
\* time, different from the sticky error and from the one an earlier such
\* call returned; and when the slot is unset, the sequential Read / Write
\* that follows is not short-circuited: it does not return that error, and
\* the bytes it transfers go to the observers.
C28_UnsupportedBeforeSticky ==
    /\ [][UnsupportedStep =>
             /\ last'.err.msg \in NotSupported /\ last'.n = 0
             /\ Engine'.err = Engine.err
             /\ last'.err # Engine.err
             /\ last'.err # last.err]_vars
    /\ []((IsEngine /\ Unsupported /\ firstErr.at > 0 /\ firstErr.at < nOps
             /\ firstErr.err.msg \in NotSupported)
           => last.err # firstErr.err)
    /\ [][(/\ IsEngine /\ Unsupported /\ Engine.err = NoErr /\ nOps' = nOps + 1
            /\ last'.op \in {"Read", "Write"})
           => /\ last'.err # last.err
              /\ last'.err # NoErr => last'.err.msg \notin NotSupported
              /\ (last'.n > 0 /\ Callbacks # <<>>) => last'.calls # <<>>
              /\ seen' = Record(seen, last'.calls)]_vars

\* WriteAt on a writer whose sink cannot write at an offset, then a Write
\* that took bytes and reached the observers, then WriteAt again: the
\* second error is not the first, and the slot is still unset
C28_Witness ==
    /\ mode = "write" /\ IsEngine /\ Unsupported /\ nOps = 3
    /\ firstErr.at = 1 /\ firstErr.err.msg = "WriteAt not supported"
    /\ last.err.msg = "WriteAt not supported" /\ last.err # firstErr.err
    /\ accepted # <<>> /\ seen[1] = <<accepted>>
    /\ bw.err = NoErr

CallStep == IsEngine /\ nOps' = nOps + 1
IsTransportErr(e) == e.kind \in {"transport", "ErrShortWrite"}
\* the last call was op, it returned a transport error, and the sticky
\* slot is unset
AfterTransportErr(op) ==
    /\ IsEngine /\ last.op = op /\ IsTransportErr(last.err) /\ ~CbFailed(last)
    /\ Engine.err = NoErr
\* the call made now is not answered with an error without any call on the
\* underlying stream
Retouches == last'.io >= 1 \/ last'.err = NoErr

\* the sticky slot changes only in a transfer whose dispatch failed and in
\* a Flush (Close runs Flush) that the buffered writer answered with an
\* error
C29_SlotWriters ==
    [][(CallStep /\ Engine'.err # Engine.err)
          => /\ Engine.err = NoErr /\ Engine'.err = last'.err
             /\ \/ last'.op \in TransferOps /\ CbFailed(last')
                \/ last'.op \in {"Flush", "Close"} /\ IsTransportErr(last'.err)]_vars
\* a transfer that returns a transport error, and a Close that returns the
\* error of the sink's Close, leave the slot unset
C29_TransportLeavesSlot ==
    [][(CallStep /\ Engine.err = NoErr)
          => /\ (last'.op \in TransferOps /\ last'.err # NoErr /\ ~CbFailed(last'))
                  => Engine'.err = NoErr
             /\ (last'.op = "Close" /\ last'.err = CloseErr) => Engine'.err = NoErr]_vars

\* C29 (as stated): the sticky slot is written only by a failed dispatch
\* and by a failing Flush; a transport error returned by Read, ReadAt,
\* WriteAt, Write or by the sink's Close leaves it unset, and after such
\* an error of Read, ReadAt, WriteAt or Write the next call of that method
\* goes to the underlying stream again.
C29_TransportErrorRetouches ==
    /\ C29_SlotWriters
    /\ C29_TransportLeavesSlot
    /\ [][\A op \in {"Read", "ReadAt", "WriteAt", "Write"} :
             (AfterTransportErr(op) /\ CallStep /\ last'.op = op) => Retouches]_vars

\* C29 (amended): the slot is written only by a failed dispatch and by a
\* failing Flush, and a transport error returned by Read, ReadAt, WriteAt,
\* Write or by the sink's Close leaves it unset.  After such an error of
\* Read, ReadAt or WriteAt the next call of that method goes to the
\* underlying stream again.  After such an error of Write the buffered
\* writer keeps the error: the next Write returns that same error, takes
\* no byte, reaches neither the sink nor the observers and leaves the slot
\* unset; the next Flush returns it without reaching the sink and stores it
\* in the slot; the first Close returns it and does not close the sink.
C29_TransportErrorNotStored ==
    /\ C29_SlotWriters
    /\ C29_TransportLeavesSlot
    /\ [][\A op \in {"Read", "ReadAt", "WriteAt"} :
             (AfterTransportErr(op) /\ CallStep /\ last'.op = op) => Retouches]_vars
    /\ [][(AfterTransportErr("Write") /\ CallStep
            /\ last'.op \in {"Write", "Flush", "Close"} /\ ~bw.closed)
           => /\ last'.err = last.err /\ last'.io = 0 /\ last'.calls = <<>>
              /\ sink' = sink
              /\ last'.op = "Write" => (last'.n = 0 /\ bw'.err = NoErr)
              /\ last'.op \in {"Flush", "Close"} => bw'.err = last.err]_vars

\* a Write returned the error of the sink; the Write after it returned
\* the same error without a call on the sink, the slot still unset
C29_Witness ==
    /\ mode = "write" /\ IsEngine /\ nOps = 3 /\ bw.err = NoErr
    /\ firstErr.at = 2 /\ firstErr.op = "Write" /\ firstErr.err = SinkErr
    /\ last.op = "Write" /\ last.err = SinkErr /\ last.io = 0 /\ last.n = 0
    /\ bw.buf.err = SinkErr

\* an observer failed during a Write, before any Flush failed
ObserverFailedInWrite == mode = "write" /\ IsEngine /\ firstCbErr.op = "Write"

\* C30: once an observer has failed during a Write, the bytes held in the
\* internal buffer stay there and the sink receives nothing more: every
\* later Flush and the first Close return the sticky error without a call
\* on the sink (which is not closed either), so the bytes the Write calls
\* accepted and the sink has not received are exactly those still in the
\* buffer.
C30_BufferedBytesAreLost ==
    /\ [][(ObserverFailedInWrite /\ CallStep)
            => /\ sink'.data = sink.data
               /\ bw'.buf = bw.buf
               /\ accepted' = accepted
               /\ last'.op = "Flush"
                     => (last'.err = firstCbErr.err /\ last'.io = 0)
               /\ (last'.op = "Close" /\ ~bw.closed)
                     => (last'.err = firstCbErr.err /\ last'.io = 0 /\ sink' = sink)]_vars
    /\ [](ObserverFailedInWrite
            => (bw.err = firstCbErr.err /\ accepted = sink.data \o bw.buf.buf))

\* a Write took a byte into the buffer and its observer failed; Flush and
\* then Close returned that error; the byte is not in the sink
C30_Witness ==
    /\ ObserverFailedInWrite /\ firstCbErr.at = 1 /\ nOps = 3
    /\ last.op = "Close" /\ last.err = firstCbErr.err /\ bw.closed
    /\ sink.closer /\ sink.closes = 0
    /\ accepted # <<>> /\ bw.buf.buf = accepted /\ sink.data = <<>>

\* the bytes of a sequence of chunks, in order
RECURSIVE Flatten(_)
Flatten(chunks) == IF chunks = <<>> THEN <<>> ELSE Head(chunks) \o Flatten(Tail(chunks))

\* C31: on a reader used through sequential Reads, the chunks an observer
\* has received, put end to end, are the bytes the Reads have returned:
\* exactly so for every observer while no dispatch has failed, and for the
\* first registered observer always; an observer skipped by a failure
\* holds a prefix of them.  The bytes the buffer has read ahead are not
\* among them.
C31_ObserversSeeReturnedBytes ==
    (mode = "read" /\ IsEngine) =>
       \A k \in 1..Len(Callbacks) :
          /\ IsPrefix(Flatten(seen[Callbacks[k]]), delivered)
          /\ (br.err = NoErr \/ k = 1) => Flatten(seen[Callbacks[k]]) = delivered

\* one byte was returned and dispatched while the buffer holds a byte read
\* ahead of it
C31_Witness ==
    /\ mode = "read" /\ IsEngine /\ br.err = NoErr /\ Len(Callbacks) = 2
    /\ br.buf.buf # <<>> /\ source.pos > Len(delivered)
    /\ delivered = <<1>> /\ seen[1] = <<(<<1>>)>> /\ seen[2] = seen[1]

\* a writer with observers on which no WriteAt has written anything
SequentialWriter ==
    mode = "write" /\ IsEngine /\ Callbacks # <<>> /\ sink.at = <<>>

\* C32: on a writer driven by Write, Flush and Close, what the sink has
\* received is a prefix of the chunks handed to the first registered
\* observer, put end to end; the observer is ahead of the sink by the
\* bytes in the internal buffer, at most the buffer's capacity, and by
\* nothing once a Flush has succeeded.
C32_SinkTrailsFirstObserver ==
    SequentialWriter =>
       LET got == Flatten(seen[Callbacks[1]])
       IN /\ IsPrefix(sink.data, got)
          /\ Len(got) - Len(sink.data) <= BufSize
          /\ got = sink.data \o bw.buf.buf
          /\ (last.op = "Flush" /\ last.err = NoErr) => got = sink.data

\* the sink holds the first two bytes, pushed when the buffer overflowed;
\* the observer has been handed a third, which waits in the buffer
C32_Witness ==
    /\ SequentialWriter /\ bw.err = NoErr /\ last.op = "Write" /\ last.err = NoErr
    /\ Len(sink.data) = BufSize /\ bw.buf.buf # <<>>
    /\ Flatten(seen[Callbacks[1]]) = sink.data \o bw.buf.buf

\* the place in the registration list of observer i (0: not registered)
PlaceOf(i) ==
    IF \E k \in DOMAIN Callbacks : Callbacks[k] = i
    THEN CHOOSE k \in DOMAIN Callbacks : Callbacks[k] = i ELSE 0

\* C33: when the dispatch of a chunk fails at the observer in place k, the
\* observers in places up to k have been handed the chunk once, and keep
\* it; those in later places have not been handed it; and no later call
\* takes anything back from what an observer has accumulated.
C33_NoRollback ==
    [][IsEngine =>
          IF seen' = seen THEN ~(CallStep /\ CbFailed(last'))
          ELSE /\ \A i \in ObsIds : IsPrefix(seen[i], seen'[i])
               /\ (CallStep /\ last'.op \in TransferOps /\ CbFailed(last'))
                     => \A i \in ObsIds :
                           seen'[i] = IF PlaceOf(i) \in 1..Len(last'.calls)
                                      THEN Append(seen[i], last'.data)
                                      ELSE seen[i]]_vars

\* the second of two observers failed on the second chunk; two calls
\* later the first observer still holds both chunks, the second too
\* (it was handed the chunk it rejected)
C33_Witness ==
    /\ IsEngine /\ Len(Callbacks) = 2 /\ nOps = 3
    /\ firstCbErr.at = 2 /\ Engine.err = firstCbErr.err
    /\ firstCbErr.err = ObsErr(Callbacks[2])
    /\ Len(seen[Callbacks[1]]) = 2 /\ Len(seen[Callbacks[2]]) = 2

\* a writer whose Close has run and whose sticky slot is unset
ClosedHealthy == mode = "write" /\ IsEngine /\ bw.closed /\ bw.err = NoErr

\* C34: after Close has run with the sticky slot unset the writer works as
\* before: a Write takes bytes and hands them to the observers and is
\* answered with an error only by the sink or by an observer; a Flush
\* with bytes in the buffer and a WriteAt on a positional sink call the
\* sink; a further Close returns nil and leaves the buffer and the sink
\* alone, so bytes written after the first Close are not pushed by it.
C34_CloseLeavesWriterLive ==
    [][(ClosedHealthy /\ CallStep)
          => /\ bw'.closed
             /\ last'.op = "Write"
                   => /\ Len(last'.data) = last'.n
                      /\ accepted' = accepted \o last'.data
                      /\ (last'.n > 0 /\ Callbacks # <<>>) => last'.calls # <<>>
                      /\ seen' = Record(seen, last'.calls)
                      /\ last'.err # NoErr => (IsTransportErr(last'.err) \/ CbFailed(last'))
                      /\ bw'.buf.buf # bw.buf.buf \/ last'.io >= 1 \/ last'.n = 0
             /\ (last'.op = "Flush" /\ bw.buf.buf # <<>> /\ bw.buf.err = NoErr)
                   => last'.io = 1
             /\ (last'.op = "WriteAt" /\ bw.dstAt # "nil") => last'.io = 1
             /\ last'.op = "Close"
                   => /\ last'.err = NoErr /\ last'.io = 0
                      /\ bw' = bw /\ sink' = sink]_vars

\* Close, then a Write whose bytes went to the observer and into the
\* buffer, then Close again: nil, and the bytes are still in the buffer
C34_Witness ==
    /\ ClosedHealthy /\ nOps = 3 /\ Callbacks # <<>>
    /\ last.op = "Close" /\ last.err = NoErr /\ last.io = 0
    /\ sink.closer /\ sink.closes = 1 /\ sink.closeErr = NoErr
    /\ accepted # <<>> /\ bw.buf.buf = accepted /\ sink.data = <<>>
    /\ seen[Callbacks[1]] = <<accepted>>

\* C35: a Close call that finds the closed flag set returns nil in that
\* one step, with no call on the sink and the writer and the sink left as
\* they are, wherever the call that won the guard stands and whatever its
\* Flush answered; so nil from Close can come while bytes are still in
\* the buffer.
C35_LosingCloseReturnsAtOnce ==
    [][(mode = "write" /\ IsEngine /\ bw.closed)
          => \A p \in DOMAIN procs :
                (procs[p].pc = "idle" /\ procs'[p].pc # "idle")
                   => /\ procs'[p].pc = "done" /\ ~procs'[p].won
                      /\ procs'[p].err = NoErr /\ procs'[p].io = 0
                      /\ bw' = bw /\ sink' = sink]_vars

\* one call has returned nil while the call that won the guard has not
\* yet flushed: the accepted bytes are in the buffer, not in the sink
C35_Witness ==
    /\ mode = "write" /\ IsEngine /\ bw.closed /\ bw.err = NoErr
    /\ \E p \in DOMAIN procs, q \in DOMAIN procs :
          /\ procs[p].pc = "done" /\ ~procs[p].won /\ procs[p].err = NoErr
          /\ procs[q].pc = "flush" /\ procs[q].won
    /\ bw.buf.buf # <<>> /\ sink.data # accepted

\* a ReadAt that got past the capability check and the sticky check
ReadAtStep ==
    /\ mode = "read" /\ IsEngine /\ CallStep /\ last'.op = "ReadAt"
    /\ br.srcAt # "nil" /\ br.err = NoErr

ResultsStep == IsEngine /\ nOps' = nOps + 1 /\ last'.op = "Results"

\* C37: Results leaves the engine as it was (buffer, sticky slot, closed
\* flag, observers), makes no call on the underlying stream and hands no
\* chunk to an observer; it returns one entry per registered name holding
\* what that observer has accumulated, and does so as well when the
\* sticky error is set.
C37_ResultsIsSnapshot ==
    [][ResultsStep =>
          /\ br' = br /\ bw' = bw
          /\ source' = source /\ sink' = sink
          /\ seen' = seen /\ delivered' = delivered /\ accepted' = accepted
          /\ last'.io = 0 /\ last'.calls = <<>> /\ last'.err = NoErr
          /\ DOMAIN last'.data = RegisteredNames
          /\ \A i \in 1..Len(Callbacks) :
                last'.data[names[Callbacks[i]]] = seen[Callbacks[i]]]_vars

\* Results called on a reader whose sticky error is set: the map holds
\* the chunk the first observer took before the second one failed
C37_Witness ==
    /\ mode = "read" /\ IsEngine /\ br.err # NoErr
    /\ last.op = "Results" /\ Len(Callbacks) = 2
    /\ last.data[names[Callbacks[1]]] # <<>>
    /\ br.buf.buf # <<>>

\* C38: the error cached by the mirror observer is set at most once:
\* once it holds an error no call, concurrent or later, replaces it; and
\* a call of OnData that starts when an error is stored returns that
\* stored error without writing to the mirror sink.
C38_CachedErrorSetOnce ==
    /\ [][(mode = "teerace" /\ tee.errPtr # NoErr) => tee'.errPtr = tee.errPtr]_vars
    /\ [](mode = "teerace" =>
            \A g \in DOMAIN procs :
               (procs[g].pc = "done" /\ procs[g].after)
                  => procs[g].ret = tee.errPtr /\ procs[g].io = 0)

\* two writes to the mirror sink have failed; one call lost the
\* compare-and-swap and returned its own error, which is not the stored
\* one; a call that started after the store has returned the stored error
C38_Witness ==
    /\ mode = "teerace" /\ tee.errPtr # NoErr /\ mirror.fails = 2
    /\ \E g \in DOMAIN procs, h \in DOMAIN procs :
          /\ procs[h].pc = "done" /\ procs[h].err # NoErr
          /\ procs[h].err # tee.errPtr /\ procs[h].ret = procs[h].err
          /\ procs[g].pc = "done" /\ procs[g].after
          /\ procs[g].ret = tee.errPtr

====
